---------------------------- MODULE Spec2Model ----------------------------
(***************************************************************************)
(* A model of pycql2: the cql2-json decoder (the pydantic models of        *)
(* cql2_pydantic.py), the cql2-text emitter (their __str__ methods), the   *)
(* text builder (the Lark transformer of cql2_transformer.py) and the      *)
(* character-literal helpers.                                              *)
(*                                                                         *)
(* Conventions.                                                            *)
(*  - A Python str is a sequence of symbols.  A symbol is one character    *)
(*    ("a", "'", "\"", "\\") or a run of characters that no string         *)
(*    operation of the code ever splits (an operator name, a keyword, an   *)
(*    ISO date).                                                           *)
(*  - Every Python value is a record with a field k naming its type: the   *)
(*    JSON values (bool, num, str, none, list, dict) and the instances of  *)
(*    the pydantic classes (k is the class name).  A field name always     *)
(*    holds the same kind of TLA+ value.                                   *)
(*  - int and float are one kind of number: Python's == identifies 1 and   *)
(*    1.0, and the structural equality of the models is built on ==.       *)
(***************************************************************************)
EXTENDS Integers, Sequences, FiniteSets, TLC

VARIABLES
    phase,      \* the position of the pipeline under way
    chars,      \* SpecLiteral: the Python string handed to the helper
    lit,        \* SpecLiteral: the character literal emitted for chars
    back,       \* SpecLiteral: the string built back from lit
    input,      \* Spec: the JSON value handed to the decoder
    ast,        \* Spec: BooleanExpression.model_validate_json(input), or the error
    text,       \* Spec: str(ast), the cql2-text emitted for ast
    built,      \* Spec: transformer.transform(parser.parse(text)), or the error
    encoded,    \* Spec: the JSON encoding (model_dump_json) of ast or of built
    redecoded,  \* Spec: BooleanExpression.model_validate_json(encoded)
    rootKeyword \* Spec: how a root model's constructor reads the keyword __root__

vars == <<phase, chars, lit, back, input, ast, text, built, encoded, redecoded, rootKeyword>>

(***************************************************************************)
(* Bounds.                                                                 *)
(***************************************************************************)
MaxStrLen == 3
\* The longest argument list of and / or and the longest list of in.
MaxList == 2

(***************************************************************************)
(* Strings.                                                                *)
(***************************************************************************)
QUOTE == "'"

Char == {"a", QUOTE, "\\"}

RECURSIVE StringsUpTo(_)
StringsUpTo(n) ==
    IF n = 0 THEN {<<>>}
    ELSE LET shorter == StringsUpTo(n - 1)
         IN  shorter \cup {Append(w, c) : w \in {x \in shorter : Len(x) = n - 1}, c \in Char}

Strings == StringsUpTo(MaxStrLen)

\* str.replace(old, new) for a one-character old.
RECURSIVE Replace1(_, _, _)
Replace1(str, old, new) ==
    IF str = <<>> THEN <<>>
    ELSE (IF Head(str) = old THEN new ELSE <<Head(str)>>) \o Replace1(Tail(str), old, new)

\* str.lstrip(c) / str.rstrip(c) / str.strip(c) for a one-character c: every
\* leading and every trailing c is removed.
RECURSIVE LStrip(_, _)
LStrip(str, c) ==
    IF str # <<>> /\ Head(str) = c THEN LStrip(Tail(str), c) ELSE str

RECURSIVE RStrip(_, _)
RStrip(str, c) ==
    IF str # <<>> /\ str[Len(str)] = c THEN RStrip(SubSeq(str, 1, Len(str) - 1), c) ELSE str

Strip(str, c) == RStrip(LStrip(str, c), c)

(***************************************************************************)
(* cql2_pydantic.make_char_literal and Cql2Transformer.CHARACTER_LITERAL.  *)
(***************************************************************************)
make_char_literal(string) == <<QUOTE>> \o Replace1(string, QUOTE, <<QUOTE, QUOTE>>) \o <<QUOTE>>

CHARACTER_LITERAL(characters) == Strip(characters, QUOTE)

(***************************************************************************)
(* Python values.  The JSON values, and the error a validation raises.     *)
(***************************************************************************)
B(b) == [k |-> "bool", b |-> b]
N(n) == [k |-> "num", n |-> n]
S(str) == [k |-> "str", s |-> str]
None == [k |-> "none"]
L(items) == [k |-> "list", items |-> items]
D(f) == [k |-> "dict", f |-> f]

ValidationError == [k |-> "ValidationError"]
Valid(v) == v.k # "ValidationError"

\* The first result of a left-to-right run over the members of a Union that
\* is not an error; the error when every member refuses the value.
FirstValid(results) ==
    IF \E i \in 1..Len(results) : Valid(results[i])
    THEN results[CHOOSE i \in 1..Len(results) :
                    Valid(results[i]) /\ \A j \in 1..(i - 1) : ~Valid(results[j])]
    ELSE ValidationError

HasKeys(v, keys) == v.k = "dict" /\ keys \subseteq DOMAIN v.f

\* A value of a Literal[...] of strings: a str that is one of the names.
IsLiteral(v, names) == v.k = "str" /\ Len(v.s) = 1 /\ v.s[1] \in names

(***************************************************************************)
(* ISO 8601 strings.  A date string is one symbol; a timestamp string is   *)
(* a date symbol, a time-of-day symbol and, unless it is naive, a zone     *)
(* designator ("Z" or "+02:00").  A datetime value keeps its own clock     *)
(* reading (day, hour) and its UTC offset in hours, as Python's does.      *)
(***************************************************************************)
DateSyms == {"2020-01-01"}
Hours == {0, 10}
TimeSym(h) == IF h = 0 THEN "T00:00:00" ELSE "T10:00:00"
HourOf(sym) == CHOOSE h \in Hours : TimeSym(h) = sym
TimeSyms == {TimeSym(h) : h \in Hours}
ZoneSyms == {"Z", "+02:00"}
OffsetOf(zone) == IF zone = "Z" THEN 0 ELSE 2

Date(day) == [k |-> "date", day |-> day]
Datetime(day, hour, aware, off) ==
    [k |-> "datetime", day |-> day, hour |-> hour, aware |-> aware, off |-> off]

\* What pydantic makes of a value for a field annotated `date`.
ValidateDate(v) ==
    IF v.k = "date" THEN v
    ELSE IF v.k = "str" /\ Len(v.s) = 1 /\ v.s[1] \in DateSyms THEN Date(v.s[1])
    ELSE ValidationError

\* What pydantic makes of a value for a field annotated `datetime`: the
\* string's own clock reading and offset are kept, nothing is converted to UTC.
ValidateDatetime(v) ==
    IF v.k = "datetime" THEN v
    ELSE IF v.k # "str" THEN ValidationError
    ELSE IF Len(v.s) = 1 /\ v.s[1] \in DateSyms
         THEN Datetime(v.s[1], 0, FALSE, 0)
    ELSE IF Len(v.s) = 2 /\ v.s[1] \in DateSyms /\ v.s[2] \in TimeSyms
         THEN Datetime(v.s[1], HourOf(v.s[2]), FALSE, 0)
    ELSE IF Len(v.s) = 3 /\ v.s[1] \in DateSyms /\ v.s[2] \in TimeSyms /\ v.s[3] \in ZoneSyms
         THEN Datetime(v.s[1], HourOf(v.s[2]), TRUE, OffsetOf(v.s[3]))
    ELSE ValidationError

(***************************************************************************)
(* The leaf types of cql2_pydantic.py.                                     *)
(***************************************************************************)
StrictStr(v) == IF v.k = "str" THEN v ELSE ValidationError
StrictBool(v) == IF v.k = "bool" THEN v ELSE ValidationError
\* A number type that is not strict: pydantic's lax mode makes True the
\* number 1 and False the number 0.
StrictFloatOrInt_Lax(v) ==
    IF v.k = "num" THEN v
    ELSE IF v.k = "bool" THEN N(IF v.b THEN 1 ELSE 0)
    ELSE ValidationError
\* Union[StrictFloat, StrictInt]
StrictFloatOrInt(v) == IF v.k = "num" THEN v ELSE ValidationError

\* A field annotated Tuple[T, ...] or List[T] takes a list or a tuple.
IsSeqOfLen(v, lens) == v.k = "list" /\ Len(v.items) \in lens

AllValid(items) == \A i \in 1..Len(items) : Valid(items[i])

SpatialOperator ==
    {"s_contains", "s_crosses", "s_disjoint", "s_equals", "s_intersects",
     "s_overlaps", "s_touches", "s_within"}
TemporalOperator ==
    {"t_after", "t_before", "t_contains", "t_disjoint", "t_during", "t_equals",
     "t_finishedBy", "t_finishes", "t_intersects", "t_meets", "t_metBy",
     "t_overlappedBy", "t_overlaps", "t_startedBy", "t_starts"}
ArrayOperator == {"a_containedBy", "a_contains", "a_equals", "a_overlaps"}
BinaryComparisonOps == {"=", "<>", "<", "<=", ">", ">="}
ArithmeticOps == {"+", "-", "*", "/", "^", "%", "div"}

(***************************************************************************)
(* The models of cql2_pydantic.py, as validators: each takes a Python      *)
(* value (a JSON value, or an instance handed to a constructor) and gives  *)
(* the validated instance or ValidationError.  A BaseModel takes an        *)
(* instance of itself or a dict that has its required keys (pydantic's     *)
(* default configuration ignores any other key); a RootModel takes an      *)
(* instance of itself or whatever its root type takes; a Union takes what  *)
(* its leftmost willing member makes of the value.  (pydantic's "smart"    *)
(* union may prefer a later member that fits the value more exactly; the   *)
(* model takes the members in the order they are written.)                 *)
(*                                                                         *)
(* The classes refer to one another through Validate, which names a class  *)
(* or union by the name it has in the source.                              *)
(***************************************************************************)
RECURSIVE Validate(_, _)

PropertyRef(v) ==
    IF v.k = "PropertyRef" THEN v
    ELSE IF HasKeys(v, {"property"}) /\ Valid(StrictStr(v.f.property))
         THEN [k |-> "PropertyRef", property |-> v.f.property]
    ELSE ValidationError

DateInstant(v) ==
    IF v.k = "DateInstant" THEN v
    ELSE IF HasKeys(v, {"date"}) /\ Valid(ValidateDate(v.f.date))
         THEN [k |-> "DateInstant", date |-> ValidateDate(v.f.date)]
    ELSE ValidationError

TimestampInstant(v) ==
    IF v.k = "TimestampInstant" THEN v
    ELSE IF HasKeys(v, {"timestamp"}) /\ Valid(ValidateDatetime(v.f.timestamp))
         THEN [k |-> "TimestampInstant", timestamp |-> ValidateDatetime(v.f.timestamp)]
    ELSE ValidationError

\* geojson_pydantic.types.BBox: a tuple of 4 or of 6 numbers.
BBox(v) ==
    IF IsSeqOfLen(v, {4, 6}) /\ \A i \in 1..Len(v.items) : v.items[i].k = "num"
    THEN v ELSE ValidationError

BboxLiteral(v) ==
    IF v.k = "BboxLiteral" THEN v
    ELSE IF HasKeys(v, {"bbox"}) /\ Valid(BBox(v.f.bbox))
         THEN [k |-> "BboxLiteral", bbox |-> v.f.bbox]
    ELSE ValidationError

\* geojson_pydantic's Geometry, kept to a Point: a dict of type "Point" with
\* a position of two numbers.
GeometryLiteral(v) ==
    IF v.k = "GeometryLiteral" THEN v
    ELSE IF /\ HasKeys(v, {"type", "coordinates"})
            /\ IsLiteral(v.f.type, {"Point"})
            /\ IsSeqOfLen(v.f.coordinates, {2})
            /\ \A i \in 1..2 : v.f.coordinates.items[i].k = "num"
         THEN [k |-> "GeometryLiteral", root |-> D([type |-> v.f.type, coordinates |-> v.f.coordinates])]
    ELSE ValidationError

\* A union that hands the value to its members in the order they are written:
\* datetime takes a date-only string as the midnight of the day.
IntervalArrayItems_DatetimeFirst(v) ==
    IF v.k = "IntervalArrayItems" THEN v
    ELSE LET root == FirstValid(<<
                 ValidateDatetime(v),
                 ValidateDate(v),
                 IF IsLiteral(v, {".."}) THEN v ELSE ValidationError,
                 PropertyRef(v),
                 Validate("FunctionRef", v) >>)
         IN  IF Valid(root) THEN [k |-> "IntervalArrayItems", root |-> root]
             ELSE ValidationError

\* Union[datetime, date, Literal[".."], PropertyRef, FunctionRef].  A JSON
\* string that is only a date is taken by `date`: `datetime` takes it in lax
\* mode alone, and a Union prefers the member that takes the value as it is.
IntervalArrayItems(v) ==
    IF v.k = "IntervalArrayItems" THEN v
    ELSE LET root == FirstValid(<<
                 IF v.k = "str" /\ Len(v.s) = 1 THEN ValidationError ELSE ValidateDatetime(v),
                 ValidateDate(v),
                 IF IsLiteral(v, {".."}) THEN v ELSE ValidationError,
                 PropertyRef(v),
                 Validate("FunctionRef", v) >>)
         IN  IF Valid(root) THEN [k |-> "IntervalArrayItems", root |-> root]
             ELSE ValidationError

IntervalInstance(v) ==
    IF v.k = "IntervalInstance" THEN v
    ELSE IF HasKeys(v, {"interval"}) /\ IsSeqOfLen(v.f.interval, {2})
         THEN LET i1 == IntervalArrayItems(v.f.interval.items[1])
                  i2 == IntervalArrayItems(v.f.interval.items[2])
              IN  IF Valid(i1) /\ Valid(i2)
                  THEN [k |-> "IntervalInstance", interval |-> L(<<i1, i2>>)]
                  ELSE ValidationError
    ELSE ValidationError

InstantInstance(v) == FirstValid(<<DateInstant(v), TimestampInstant(v)>>)
SpatialInstance(v) == FirstValid(<<GeometryLiteral(v), BboxLiteral(v)>>)
TemporalInstance(v) == FirstValid(<<InstantInstance(v), IntervalInstance(v)>>)
TemporalInstantExpression(v) == FirstValid(<<InstantInstance(v), PropertyRef(v), Validate("FunctionRef", v)>>)

\* A node {"op": ..., "args": [...]} whose args is a sequence of n values.
\* An op node whose args may be longer than the operator takes.
IsOpNode_AtLeast(v, ops, lens) ==
    /\ HasKeys(v, {"op", "args"})
    /\ IsLiteral(v.f.op, ops)
    /\ v.f.args.k = "list" /\ \E n \in lens : Len(v.f.args.items) >= n

IsOpNode(v, ops, lens) ==
    /\ HasKeys(v, {"op", "args"})
    /\ IsLiteral(v.f.op, ops)
    /\ IsSeqOfLen(v.f.args, lens)

OpOf(v) == v.f.op.s[1]

NotExpression(v) ==
    IF v.k = "NotExpression" THEN v
    ELSE IF IsOpNode(v, {"not"}, {1})
         THEN LET a == Validate("BooleanExpression", v.f.args.items[1])
              IN  IF Valid(a)
                  THEN [k |-> "NotExpression", op |-> "not", args |-> L(<<a>>)]
                  ELSE ValidationError
    ELSE ValidationError

BinaryComparisonPredicate(v) ==
    IF v.k = "BinaryComparisonPredicate" THEN v
    ELSE IF IsOpNode(v, BinaryComparisonOps, {2})
         THEN LET a == Validate("ScalarExpression", v.f.args.items[1])
                  b == Validate("ScalarExpression", v.f.args.items[2])
              IN  IF Valid(a) /\ Valid(b)
                  THEN [k |-> "BinaryComparisonPredicate", op |-> OpOf(v), args |-> L(<<a, b>>)]
                  ELSE ValidationError
    ELSE ValidationError

IsLikePredicate(v) ==
    IF v.k = "IsLikePredicate" THEN v
    ELSE IF IsOpNode(v, {"like"}, {2})
         THEN LET a == Validate("CharacterExpression", v.f.args.items[1])
                  b == Validate("PatternExpression", v.f.args.items[2])
              IN  IF Valid(a) /\ Valid(b)
                  THEN [k |-> "IsLikePredicate", op |-> "like", args |-> L(<<a, b>>)]
                  ELSE ValidationError
    ELSE ValidationError

IsBetweenPredicate(v) ==
    IF v.k = "IsBetweenPredicate" THEN v
    ELSE IF IsOpNode(v, {"between"}, {3})
         THEN LET a == Validate("NumericExpression", v.f.args.items[1])
                  b == Validate("NumericExpression", v.f.args.items[2])
                  c == Validate("NumericExpression", v.f.args.items[3])
              IN  IF Valid(a) /\ Valid(b) /\ Valid(c)
                  THEN [k |-> "IsBetweenPredicate", op |-> "between", args |-> L(<<a, b, c>>)]
                  ELSE ValidationError
    ELSE ValidationError

\* args: Tuple[ScalarExpression, List[ScalarExpression]]; the List carries no
\* length constraint.
IsInListPredicate(v) ==
    IF v.k = "IsInListPredicate" THEN v
    ELSE IF IsOpNode(v, {"in"}, {2}) /\ v.f.args.items[2].k = "list"
         THEN LET a == Validate("ScalarExpression", v.f.args.items[1])
                  given == v.f.args.items[2].items
                  list == [i \in 1..Len(given) |-> Validate("ScalarExpression", given[i])]
              IN  IF Valid(a) /\ AllValid(list)
                  THEN [k |-> "IsInListPredicate", op |-> "in", args |-> L(<<a, L(list)>>)]
                  ELSE ValidationError
    ELSE ValidationError

\* args: IsNullOperand, a single value and not a sequence.
IsNullPredicate(v) ==
    IF v.k = "IsNullPredicate" THEN v
    ELSE IF HasKeys(v, {"op", "args"}) /\ IsLiteral(v.f.op, {"isNull"})
         THEN LET a == Validate("IsNullOperand", v.f.args)
              IN  IF Valid(a)
                  THEN [k |-> "IsNullPredicate", op |-> "isNull", args |-> a]
                  ELSE ValidationError
    ELSE ValidationError

SpatialPredicate(v) ==
    IF v.k = "SpatialPredicate" THEN v
    ELSE IF IsOpNode(v, SpatialOperator, {2})
         THEN LET a == Validate("GeomExpression", v.f.args.items[1])
                  b == Validate("GeomExpression", v.f.args.items[2])
              IN  IF Valid(a) /\ Valid(b)
                  THEN [k |-> "SpatialPredicate", op |-> OpOf(v), args |-> L(<<a, b>>)]
                  ELSE ValidationError
    ELSE ValidationError

TemporalPredicate(v) ==
    IF v.k = "TemporalPredicate" THEN v
    ELSE IF IsOpNode(v, TemporalOperator, {2})
         THEN LET a == Validate("TemporalExpression", v.f.args.items[1])
                  b == Validate("TemporalExpression", v.f.args.items[2])
              IN  IF Valid(a) /\ Valid(b)
                  THEN [k |-> "TemporalPredicate", op |-> OpOf(v), args |-> L(<<a, b>>)]
                  ELSE ValidationError
    ELSE ValidationError

\* Array: a RootModel of MutableSequence[ArrayElement].
Array(v) ==
    IF v.k = "Array" THEN v
    ELSE IF v.k = "list"
         THEN LET elems == [i \in 1..Len(v.items) |-> Validate("ArrayElement", v.items[i])]
              IN  IF AllValid(elems) THEN [k |-> "Array", root |-> L(elems)]
                  ELSE ValidationError
    ELSE ValidationError

ArrayExpressionItems(v) == FirstValid(<<Validate("Array", v), PropertyRef(v), Validate("FunctionRef", v)>>)

\* ArrayExpression is a BaseModel with one field, root.  This is what the
\* handler of its wrap validator does: the plain validation of the model.
ArrayExpressionHandler(v) ==
    IF v.k = "ArrayExpression" THEN v
    ELSE IF HasKeys(v, {"root"}) /\ IsSeqOfLen(v.f.root, {2})
         THEN LET a == Validate("ArrayExpressionItems", v.f.root.items[1])
                  b == Validate("ArrayExpressionItems", v.f.root.items[2])
              IN  IF Valid(a) /\ Valid(b)
                  THEN [k |-> "ArrayExpression", root |-> L(<<a, b>>)]
                  ELSE ValidationError
    ELSE ValidationError

\* A validate_root that refuses whatever is not a Sequence of length 2,
\* instead of handing it to the handler.
ArrayExpression_SequenceOnly(v) ==
    IF (v.k = "list" /\ Len(v.items) = 2) \/ (v.k = "str" /\ Len(v.s) = 2)
    THEN ArrayExpressionHandler(D([root |-> v]))
    ELSE ValidationError

\* ArrayExpression.validate_root: a Sequence of length 2 (a list, a tuple, a
\* str) is handed to ArrayExpression(root=values), whose own validation sees
\* the dict {"root": values}; anything else goes to the handler as it is.
ArrayExpression(v) ==
    IF (v.k = "list" /\ Len(v.items) = 2) \/ (v.k = "str" /\ Len(v.s) = 2)
    THEN ArrayExpressionHandler(D([root |-> v]))
    ELSE ArrayExpressionHandler(v)

ArrayPredicate(v) ==
    IF v.k = "ArrayPredicate" THEN v
    ELSE IF HasKeys(v, {"op", "args"}) /\ IsLiteral(v.f.op, ArrayOperator)
         THEN LET a == Validate("ArrayExpression", v.f.args)
              IN  IF Valid(a)
                  THEN [k |-> "ArrayPredicate", op |-> OpOf(v), args |-> a]
                  ELSE ValidationError
    ELSE ValidationError

\* List[BooleanExpression] without the min_length constraint.
BooleanExpressionList_AnyLength(v) ==
    IF v.k = "list"
    THEN LET args == [i \in 1..Len(v.items) |-> Validate("BooleanExpression", v.items[i])]
         IN  IF AllValid(args) THEN L(args) ELSE ValidationError
    ELSE ValidationError

\* Annotated[List[BooleanExpression], Field(min_length=2)]
BooleanExpressionList(v) ==
    IF v.k = "list" /\ Len(v.items) >= 2
    THEN LET args == [i \in 1..Len(v.items) |-> Validate("BooleanExpression", v.items[i])]
         IN  IF AllValid(args) THEN L(args) ELSE ValidationError
    ELSE ValidationError

AndOrExpression(v) ==
    IF v.k = "AndOrExpression" THEN v
    ELSE IF HasKeys(v, {"op", "args"}) /\ IsLiteral(v.f.op, {"or", "and"})
         THEN LET args == Validate("BooleanExpressionList", v.f.args)
              IN  IF Valid(args)
                  THEN [k |-> "AndOrExpression", op |-> OpOf(v), args |-> args]
                  ELSE ValidationError
    ELSE ValidationError

ArithmeticExpression(v) ==
    IF v.k = "ArithmeticExpression" THEN v
    ELSE IF IsOpNode(v, ArithmeticOps, {2})
         THEN LET a == Validate("ArithmeticOperandsItems", v.f.args.items[1])
                  b == Validate("ArithmeticOperandsItems", v.f.args.items[2])
              IN  IF Valid(a) /\ Valid(b)
                  THEN [k |-> "ArithmeticExpression", op |-> OpOf(v), args |-> L(<<a, b>>)]
                  ELSE ValidationError
    ELSE ValidationError

\* Function: name is a StrictStr, args is optional and defaults to None.
Function(v) ==
    IF v.k = "Function" THEN v
    ELSE IF HasKeys(v, {"name"}) /\ Valid(StrictStr(v.f.name))
         THEN LET args == IF "args" \in DOMAIN v.f THEN Validate("FunctionArguments", v.f.args) ELSE None
              IN  IF Valid(args)
                  THEN [k |-> "Function", name |-> v.f.name, args |-> args]
                  ELSE ValidationError
    ELSE ValidationError

FunctionRef(v) ==
    IF v.k = "FunctionRef" THEN v
    ELSE IF HasKeys(v, {"function"}) /\ Valid(Validate("Function", v.f.function))
         THEN [k |-> "FunctionRef", function |-> Validate("Function", v.f.function)]
    ELSE ValidationError

\* The RootModels.
BooleanExpression(v) ==
    IF v.k = "BooleanExpression" THEN v
    ELSE LET root == Validate("BooleanExpressionItems", v)
         IN  IF Valid(root) THEN [k |-> "BooleanExpression", root |-> root]
             ELSE ValidationError

CharacterExpression(v) ==
    IF v.k = "CharacterExpression" THEN v
    ELSE LET root == Validate("CharacterExpressionItems", v)
         IN  IF Valid(root) THEN [k |-> "CharacterExpression", root |-> root]
             ELSE ValidationError

PatternExpression(v) ==
    IF v.k = "PatternExpression" THEN v
    ELSE LET root == Validate("PatternExpressionItems", v)
         IN  IF Valid(root) THEN [k |-> "PatternExpression", root |-> root]
             ELSE ValidationError

\* Casei[E] and Accenti[E], for E the character and the pattern expression.
CaseiCharacter(v) ==
    LET inner == IF v.k = "Casei" THEN Validate("CharacterExpression", v.casei)
                 ELSE IF HasKeys(v, {"casei"}) THEN Validate("CharacterExpression", v.f.casei)
                 ELSE ValidationError
    IN  IF Valid(inner) THEN [k |-> "Casei", casei |-> inner] ELSE ValidationError

AccentiCharacter(v) ==
    LET inner == IF v.k = "Accenti" THEN Validate("CharacterExpression", v.accenti)
                 ELSE IF HasKeys(v, {"accenti"}) THEN Validate("CharacterExpression", v.f.accenti)
                 ELSE ValidationError
    IN  IF Valid(inner) THEN [k |-> "Accenti", accenti |-> inner] ELSE ValidationError

CaseiPattern(v) ==
    LET inner == IF v.k = "Casei" THEN Validate("PatternExpression", v.casei)
                 ELSE IF HasKeys(v, {"casei"}) THEN Validate("PatternExpression", v.f.casei)
                 ELSE ValidationError
    IN  IF Valid(inner) THEN [k |-> "Casei", casei |-> inner] ELSE ValidationError

AccentiPattern(v) ==
    LET inner == IF v.k = "Accenti" THEN Validate("PatternExpression", v.accenti)
                 ELSE IF HasKeys(v, {"accenti"}) THEN Validate("PatternExpression", v.f.accenti)
                 ELSE ValidationError
    IN  IF Valid(inner) THEN [k |-> "Accenti", accenti |-> inner] ELSE ValidationError

\* The Unions, each in the order of its declaration.
ComparisonPredicate(v) ==
    FirstValid(<<Validate("BinaryComparisonPredicate", v), Validate("IsLikePredicate", v), Validate("IsBetweenPredicate", v),
                 Validate("IsInListPredicate", v), Validate("IsNullPredicate", v)>>)
NumericExpression(v) ==
    FirstValid(<<Validate("ArithmeticExpression", v), StrictFloatOrInt(v), PropertyRef(v), Validate("FunctionRef", v)>>)
GeomExpression(v) == FirstValid(<<SpatialInstance(v), PropertyRef(v), Validate("FunctionRef", v)>>)
TemporalExpression(v) == FirstValid(<<TemporalInstance(v), PropertyRef(v), Validate("FunctionRef", v)>>)
ScalarExpression(v) ==
    FirstValid(<<TemporalInstantExpression(v), Validate("BooleanExpression", v), Validate("CharacterExpression", v),
                 Validate("NumericExpression", v)>>)
ArithmeticOperandsItems(v) ==
    FirstValid(<<Validate("ArithmeticExpression", v), PropertyRef(v), Validate("FunctionRef", v), StrictFloatOrInt(v)>>)
PatternExpressionItems(v) == FirstValid(<<Validate("CaseiPattern", v), Validate("AccentiPattern", v), StrictStr(v)>>)
CharacterExpressionItems(v) ==
    FirstValid(<<Validate("CaseiCharacter", v), Validate("AccentiCharacter", v), StrictStr(v), PropertyRef(v),
                 Validate("FunctionRef", v)>>)
IsNullOperand(v) ==
    FirstValid(<<Validate("CharacterExpression", v), Validate("NumericExpression", v), Validate("TemporalExpression", v),
                 Validate("BooleanExpression", v), Validate("GeomExpression", v)>>)
ArrayElement(v) ==
    FirstValid(<<Validate("CharacterExpression", v), Validate("NumericExpression", v), Validate("BooleanExpression", v),
                 Validate("GeomExpression", v), Validate("TemporalExpression", v), Validate("Array", v)>>)
\* One item of the List of FunctionArguments.
FunctionArgument(v) ==
    FirstValid(<<Validate("CharacterExpression", v), Validate("NumericExpression", v), Validate("BooleanExpression", v),
                 Validate("GeomExpression", v), Validate("TemporalExpression", v), Validate("Array", v)>>)
FunctionArguments(v) ==
    IF v.k = "none" THEN None
    ELSE IF v.k = "list"
         THEN LET args == [i \in 1..Len(v.items) |-> Validate("FunctionArgument", v.items[i])]
              IN  IF AllValid(args) THEN L(args) ELSE ValidationError
    ELSE ValidationError
BooleanExpressionItems(v) ==
    FirstValid(<<Validate("AndOrExpression", v), Validate("NotExpression", v), Validate("ComparisonPredicate", v),
                 Validate("SpatialPredicate", v), Validate("TemporalPredicate", v), Validate("ArrayPredicate", v), StrictBool(v)>>)

\* The validation of a value against one of the types above, by its name.
Validate(type, v) ==
    CASE type = "BooleanExpression" -> BooleanExpression(v)
      [] type = "BooleanExpressionItems" -> BooleanExpressionItems(v)
      [] type = "BooleanExpressionList" -> BooleanExpressionList(v)
      [] type = "AndOrExpression" -> AndOrExpression(v)
      [] type = "NotExpression" -> NotExpression(v)
      [] type = "ComparisonPredicate" -> ComparisonPredicate(v)
      [] type = "BinaryComparisonPredicate" -> BinaryComparisonPredicate(v)
      [] type = "IsLikePredicate" -> IsLikePredicate(v)
      [] type = "IsBetweenPredicate" -> IsBetweenPredicate(v)
      [] type = "IsInListPredicate" -> IsInListPredicate(v)
      [] type = "IsNullPredicate" -> IsNullPredicate(v)
      [] type = "SpatialPredicate" -> SpatialPredicate(v)
      [] type = "TemporalPredicate" -> TemporalPredicate(v)
      [] type = "ArrayPredicate" -> ArrayPredicate(v)
      [] type = "ArrayExpression" -> ArrayExpression(v)
      [] type = "Array" -> Array(v)
      [] type = "ArrayExpressionItems" -> ArrayExpressionItems(v)
      [] type = "ArrayElement" -> ArrayElement(v)
      [] type = "ScalarExpression" -> ScalarExpression(v)
      [] type = "NumericExpression" -> NumericExpression(v)
      [] type = "ArithmeticExpression" -> ArithmeticExpression(v)
      [] type = "ArithmeticOperandsItems" -> ArithmeticOperandsItems(v)
      [] type = "CharacterExpression" -> CharacterExpression(v)
      [] type = "CharacterExpressionItems" -> CharacterExpressionItems(v)
      [] type = "PatternExpression" -> PatternExpression(v)
      [] type = "PatternExpressionItems" -> PatternExpressionItems(v)
      [] type = "CaseiCharacter" -> CaseiCharacter(v)
      [] type = "AccentiCharacter" -> AccentiCharacter(v)
      [] type = "CaseiPattern" -> CaseiPattern(v)
      [] type = "AccentiPattern" -> AccentiPattern(v)
      [] type = "IsNullOperand" -> IsNullOperand(v)
      [] type = "FunctionArguments" -> FunctionArguments(v)
      [] type = "FunctionArgument" -> FunctionArgument(v)
      [] type = "Function" -> Function(v)
      [] type = "FunctionRef" -> FunctionRef(v)
      [] type = "TemporalExpression" -> TemporalExpression(v)
      [] type = "GeomExpression" -> GeomExpression(v)

(***************************************************************************)
(* The text emitter: the __str__ methods.  A text is the sequence of the   *)
(* symbols written, without the blanks between them.                       *)
(***************************************************************************)
\* str.upper() on the operator names the emitter upper-cases.
Upper(op) ==
    CASE op = "and" -> "AND" [] op = "or" -> "OR"
      [] op = "s_contains" -> "S_CONTAINS" [] op = "s_crosses" -> "S_CROSSES"
      [] op = "s_disjoint" -> "S_DISJOINT" [] op = "s_equals" -> "S_EQUALS"
      [] op = "s_intersects" -> "S_INTERSECTS" [] op = "s_overlaps" -> "S_OVERLAPS"
      [] op = "s_touches" -> "S_TOUCHES" [] op = "s_within" -> "S_WITHIN"
      [] op = "t_after" -> "T_AFTER" [] op = "t_before" -> "T_BEFORE"
      [] op = "t_contains" -> "T_CONTAINS" [] op = "t_disjoint" -> "T_DISJOINT"
      [] op = "t_during" -> "T_DURING" [] op = "t_equals" -> "T_EQUALS"
      [] op = "t_finishedBy" -> "T_FINISHEDBY" [] op = "t_finishes" -> "T_FINISHES"
      [] op = "t_intersects" -> "T_INTERSECTS" [] op = "t_meets" -> "T_MEETS"
      [] op = "t_metBy" -> "T_METBY" [] op = "t_overlappedBy" -> "T_OVERLAPPEDBY"
      [] op = "t_overlaps" -> "T_OVERLAPS" [] op = "t_startedBy" -> "T_STARTEDBY"
      [] op = "t_starts" -> "T_STARTS"
      [] op = "a_containedBy" -> "A_CONTAINEDBY" [] op = "a_contains" -> "A_CONTAINS"
      [] op = "a_equals" -> "A_EQUALS" [] op = "a_overlaps" -> "A_OVERLAPS"

\* datetime.strftime("%Y-%m-%dT%H:%M:%S.%fZ"): the datetime's own clock
\* reading, whatever its tzinfo, then the letter Z.
StrfTimeZ(dt) == <<dt.day, TimeSym(dt.hour), ".000000", "Z">>

\* sep.join(parts) for a sequence of texts.
RECURSIVE Join(_, _)
Join(parts, sep) ==
    IF parts = <<>> THEN <<>>
    ELSE IF Len(parts) = 1 THEN parts[1]
    ELSE parts[1] \o sep \o Join(Tail(parts), sep)

RECURSIVE Str(_)
\* join_list(items, sep)
join_list(items, sep) == Join([i \in 1..Len(items) |-> Str(items[i])], sep)

Str(v) ==
    CASE v.k = "BooleanExpression" ->
            IF v.root.k = "bool" THEN <<IF v.root.b THEN "TRUE" ELSE "FALSE">>
            ELSE Str(v.root)
      [] v.k = "NotExpression" -> <<"NOT">> \o Str(v.args.items[1])
      [] v.k = "BinaryComparisonPredicate" ->
            Str(v.args.items[1]) \o <<v.op>> \o Str(v.args.items[2])
      [] v.k = "IsLikePredicate" ->
            Str(v.args.items[1]) \o <<"LIKE">> \o Str(v.args.items[2])
      [] v.k = "IsBetweenPredicate" ->
            Str(v.args.items[1]) \o <<"BETWEEN">> \o Str(v.args.items[2])
                \o <<"AND">> \o Str(v.args.items[3])
      [] v.k = "IsInListPredicate" ->
            Str(v.args.items[1]) \o <<"IN", "(">>
                \o join_list(v.args.items[2].items, <<",">>) \o <<")">>
      [] v.k = "IsNullPredicate" -> Str(v.args) \o <<"IS", "NULL">>
      [] v.k \in {"SpatialPredicate", "TemporalPredicate"} ->
            <<Upper(v.op), "(">> \o Str(v.args.items[1]) \o <<",">>
                \o Str(v.args.items[2]) \o <<")">>
      [] v.k = "Array" -> <<"(">> \o join_list(v.root.items, <<",">>) \o <<")">>
      [] v.k = "ArrayExpression" ->
            <<"(">> \o Str(v.root.items[1]) \o <<",">> \o Str(v.root.items[2]) \o <<")">>
      [] v.k = "ArrayPredicate" -> <<Upper(v.op)>> \o Str(v.args)
      [] v.k = "AndOrExpression" ->
            <<"(">> \o join_list(v.args.items, <<Upper(v.op)>>) \o <<")">>
      [] v.k = "ArithmeticExpression" ->
            <<"(">> \o Str(v.args.items[1]) \o <<v.op>> \o Str(v.args.items[2]) \o <<")">>
      [] v.k = "Function" ->
            v.name.s \o <<"(">>
                \o (IF v.args.k = "list" /\ v.args.items # <<>>
                    THEN join_list(v.args.items, <<",">>) ELSE <<>>)
                \o <<")">>
      [] v.k = "FunctionRef" -> Str(v.function)
      [] v.k = "PropertyRef" -> <<"\"">> \o v.property.s \o <<"\"">>
      [] v.k = "DateInstant" -> <<"DATE", "(", QUOTE, v.date.day, QUOTE, ")">>
      [] v.k = "TimestampInstant" ->
            <<"TIMESTAMP", "(", QUOTE>> \o StrfTimeZ(v.timestamp) \o <<QUOTE, ")">>
      [] v.k = "BboxLiteral" -> <<"BBOX", "(">> \o join_list(v.bbox.items, <<",">>) \o <<")">>
      [] v.k = "IntervalArrayItems" ->
            IF v.root.k = "datetime" THEN <<QUOTE>> \o StrfTimeZ(v.root) \o <<QUOTE>>
            ELSE IF v.root.k = "date" THEN <<QUOTE, v.root.day, QUOTE>>
            ELSE IF v.root.k = "str" THEN <<QUOTE, "..", QUOTE>>
            ELSE Str(v.root)
      [] v.k = "IntervalInstance" ->
            <<"INTERVAL", "(">> \o Str(v.interval.items[1]) \o <<",">>
                \o Str(v.interval.items[2]) \o <<")">>
      [] v.k \in {"CharacterExpression", "PatternExpression"} ->
            IF v.root.k = "str" THEN make_char_literal(v.root.s) ELSE Str(v.root)
      [] v.k = "Casei" -> <<"CASEI", "(">> \o Str(v.casei) \o <<")">>
      [] v.k = "Accenti" -> <<"ACCENTI", "(">> \o Str(v.accenti) \o <<")">>
      [] v.k = "GeometryLiteral" ->
            <<"POINT", "(">> \o Str(v.root.f.coordinates.items[1])
                \o Str(v.root.f.coordinates.items[2]) \o <<")">>
      \* str() of a number
      [] v.k = "num" -> <<ToString(v.n)>>

(***************************************************************************)
(* The JSON encoder: model_dump in JSON mode.  A RootModel dumps as its    *)
(* root, a BaseModel as the dict of its fields, a datetime and a date as   *)
(* their ISO 8601 string.                                                  *)
(***************************************************************************)
IsoFormat(dt) ==
    IF dt.k = "date" THEN S(<<dt.day>>)
    ELSE IF ~dt.aware THEN S(<<dt.day, TimeSym(dt.hour)>>)
    ELSE S(<<dt.day, TimeSym(dt.hour), IF dt.off = 0 THEN "Z" ELSE "+02:00">>)

RECURSIVE ToJson(_)
ToJsonItems(items) == L([i \in 1..Len(items) |-> ToJson(items[i])])

ToJson(v) ==
    CASE v.k \in {"bool", "num", "str", "none"} -> v
      [] v.k = "dict" -> v
      [] v.k \in {"date", "datetime"} -> IsoFormat(v)
      [] v.k = "list" -> ToJsonItems(v.items)
      [] v.k \in {"BooleanExpression", "CharacterExpression", "PatternExpression",
                  "Array", "IntervalArrayItems", "GeometryLiteral"} -> ToJson(v.root)
      [] v.k \in {"NotExpression", "BinaryComparisonPredicate", "IsLikePredicate",
                  "IsBetweenPredicate", "IsInListPredicate", "IsNullPredicate",
                  "SpatialPredicate", "TemporalPredicate", "ArrayPredicate",
                  "AndOrExpression", "ArithmeticExpression"} ->
            D([op |-> S(<<v.op>>), args |-> ToJson(v.args)])
      [] v.k = "ArrayExpression" -> D([root |-> ToJson(v.root)])
      [] v.k = "Function" -> D([name |-> v.name, args |-> ToJson(v.args)])
      [] v.k = "FunctionRef" -> D([function |-> ToJson(v.function)])
      [] v.k = "PropertyRef" -> D([property |-> v.property])
      [] v.k = "DateInstant" -> D([date |-> ToJson(v.date)])
      [] v.k = "TimestampInstant" -> D([timestamp |-> ToJson(v.timestamp)])
      [] v.k = "BboxLiteral" -> D([bbox |-> ToJson(v.bbox)])
      [] v.k = "IntervalInstance" -> D([interval |-> ToJson(v.interval)])
      [] v.k = "Casei" -> D([casei |-> ToJson(v.casei)])
      [] v.k = "Accenti" -> D([accenti |-> ToJson(v.accenti)])

(***************************************************************************)
(* The text lexer.  The grammar file (cql2.lark) is modelled from the      *)
(* specification's grammar essentials: a character literal runs from an    *)
(* apostrophe to the first apostrophe that is neither doubled nor          *)
(* backslash-escaped, a quoted identifier from a double quote to the next  *)
(* one, blanks separate the lexemes.  A token is its type and its lexeme.  *)
(***************************************************************************)
Token(type, lexeme) == [k |-> "token", t |-> type, s |-> lexeme]

IdentChars == {"a", "f"}
NumberSyms == {ToString(n) : n \in -1..2}
NumberOf(sym) == CHOOSE n \in -1..2 : ToString(n) = sym

\* The index of the apostrophe closing the literal opened before index i, or 0.
RECURSIVE LiteralEnd(_, _)
LiteralEnd(txt, i) ==
    IF i > Len(txt) THEN 0
    ELSE IF txt[i] = QUOTE /\ i < Len(txt) /\ txt[i + 1] = QUOTE THEN LiteralEnd(txt, i + 2)
    ELSE IF txt[i] = "\\" /\ i < Len(txt) /\ txt[i + 1] = QUOTE THEN LiteralEnd(txt, i + 2)
    ELSE IF txt[i] = QUOTE THEN i
    ELSE LiteralEnd(txt, i + 1)

\* The index of the double quote closing the identifier opened before index i, or 0.
RECURSIVE QuotedEnd(_, _)
QuotedEnd(txt, i) ==
    IF i > Len(txt) THEN 0
    ELSE IF txt[i] = "\"" THEN i
    ELSE QuotedEnd(txt, i + 1)

RECURSIVE IdentEnd(_, _)
IdentEnd(txt, i) ==
    IF i < Len(txt) /\ txt[i + 1] \in IdentChars THEN IdentEnd(txt, i + 1) ELSE i

LexError == <<Token("LexError", <<>>)>>

\* The tokens of the text from index i on; LexError when a lexeme never ends.
RECURSIVE Lex(_, _)
Lex(txt, i) ==
    IF i > Len(txt) THEN <<>>
    ELSE LET end == IF txt[i] = QUOTE THEN LiteralEnd(txt, i + 1)
                    ELSE IF txt[i] = "\"" THEN QuotedEnd(txt, i + 1)
                    ELSE IF txt[i] \in IdentChars THEN IdentEnd(txt, i)
                    ELSE i
             type == IF txt[i] = QUOTE THEN "CHARACTER_LITERAL"
                     ELSE IF txt[i] = "\"" THEN "QUOTED"
                     ELSE IF txt[i] \in IdentChars THEN "IDENTIFIER"
                     ELSE IF txt[i] \in NumberSyms THEN "SIGNED_NUMBER"
                     ELSE txt[i]
         IN  IF end = 0 THEN LexError
             ELSE LET rest == Lex(txt, end + 1)
                  IN  IF rest = LexError THEN LexError
                      ELSE <<Token(type, SubSeq(txt, i, end))>> \o rest

(***************************************************************************)
(* The text builder: the callbacks of Cql2Transformer.  A constructor call *)
(* Cls(field=value, ...) is the validation of the dict of its keyword      *)
(* arguments.                                                              *)
(*                                                                         *)
(* The callbacks hand the root value of a root model to its constructor    *)
(* by the keyword __root__.  rootKeyword is how the constructor reads it:  *)
(*   "root"  as the root value, which is what the callbacks are written    *)
(*           for;                                                          *)
(*   "data"  as a keyword like any other, which is what RootModel.__init__ *)
(*           of the pydantic that cql2_pydantic.py imports does: the root  *)
(*           value is then the dict {"__root__": value}, and               *)
(*           ArrayExpression, a BaseModel, gets that dict as its fields.   *)
(* Under "data" the validation of the dict fails and the callback raises.  *)
(***************************************************************************)
RootKeywords == {"root", "data"}

\* The value a constructor called as Cls(__root__=value) validates.
RootKeyword(value) == IF rootKeyword = "root" THEN value ELSE D("__root__" :> value)

OpArgs(op, args) == D([op |-> S(<<op>>), args |-> L(args)])

_make_boolean_expression(arg) ==
    IF arg.k = "BooleanExpression" THEN arg ELSE BooleanExpression(RootKeyword(arg))

BOOLEAN_LITERAL(boolean_literal) == B(boolean_literal \in {"TRUE", "true"})

SIGNED_NUMBER(lexeme) == N(NumberOf(lexeme))

start(expression) == _make_boolean_expression(expression)

boolean_expression(boolean_terms) ==
    AndOrExpression(D([op |-> S(<<"or">>),
                       args |-> L([i \in 1..Len(boolean_terms) |->
                                      _make_boolean_expression(boolean_terms[i])])]))

boolean_term(boolean_factors) ==
    AndOrExpression(D([op |-> S(<<"and">>),
                       args |-> L([i \in 1..Len(boolean_factors) |->
                                      _make_boolean_expression(boolean_factors[i])])]))

not_(boolean_primary) ==
    NotExpression(OpArgs("not", <<_make_boolean_expression(boolean_primary)>>))

\* eq, neq, lt, gt, lteq, gteq: each builds the predicate of its operator.
ComparisonOpOf(rule) ==
    CASE rule = "eq" -> "=" [] rule = "neq" -> "<>" [] rule = "lt" -> "<" [] rule = "gt" -> ">"
      [] rule = "lteq" -> "<=" [] rule = "gteq" -> ">="
binary_comparison(rule, e1, e2) ==
    BinaryComparisonPredicate(OpArgs(ComparisonOpOf(rule), <<e1, e2>>))

pattern_expression(arg) == PatternExpression(RootKeyword(arg))
character_expression(arg) == CharacterExpression(RootKeyword(arg))

like(e1, e2) == IsLikePredicate(OpArgs("like", <<e1, e2>>))
not_like(e1, e2) ==
    NotExpression(OpArgs("not",
        <<BooleanExpression(RootKeyword(IsLikePredicate(OpArgs("like", <<e1, e2>>))))>>))

is_between(e1, e2, e3) == IsBetweenPredicate(OpArgs("between", <<e1, e2, e3>>))
is_not_between(e1, e2, e3) ==
    NotExpression(OpArgs("not",
        <<BooleanExpression(RootKeyword(
              IsBetweenPredicate(OpArgs("between", <<e1, e2, e3>>))))>>))

in_list(scalar_expression, list_values) ==
    IsInListPredicate(OpArgs("in", <<scalar_expression, L(list_values)>>))
\* *list_values collects the children after the first; list_values[0] is the
\* first of them, the list the rule list_values has passed up.
not_in_list(scalar_expression, list_values) ==
    NotExpression(OpArgs("not",
        <<BooleanExpression(RootKeyword(IsInListPredicate(
              OpArgs("in", <<scalar_expression, list_values[1]>>))))>>))

is_null(is_null_operand) ==
    IsNullPredicate(D([op |-> S(<<"isNull">>), args |-> is_null_operand]))
is_not_null(is_null_operand) ==
    NotExpression(OpArgs("not",
        <<BooleanExpression(RootKeyword(
              IsNullPredicate(D([op |-> S(<<"isNull">>), args |-> is_null_operand]))))>>))

\* str.lower() on the operator lexemes of the text.
Lower(lexeme) ==
    IF \E op \in SpatialOperator \cup TemporalOperator \cup ArrayOperator : Upper(op) = lexeme
    THEN LET op == CHOOSE o \in SpatialOperator \cup TemporalOperator \cup ArrayOperator :
                       Upper(o) = lexeme
         IN  CASE op = "t_finishedBy" -> "t_finishedby" [] op = "t_metBy" -> "t_metby"
               [] op = "t_overlappedBy" -> "t_overlappedby" [] op = "t_startedBy" -> "t_startedby"
               [] op = "a_containedBy" -> "a_containedby" [] OTHER -> op
    ELSE lexeme

\* op.endswith("by"), and op[:-2] + "By"
EndsWithBy(op) ==
    op \in {"t_finishedby", "t_metby", "t_overlappedby", "t_startedby", "a_containedby"}
ByToBy(op) ==
    CASE op = "t_finishedby" -> "t_finishedBy" [] op = "t_metby" -> "t_metBy"
      [] op = "t_overlappedby" -> "t_overlappedBy" [] op = "t_startedby" -> "t_startedBy"
      [] op = "a_containedby" -> "a_containedBy"

spatial_predicate(spatial_operator, e1, e2) ==
    SpatialPredicate(OpArgs(Lower(spatial_operator), <<e1, e2>>))

temporal_predicate(temporal_operator, e1, e2) ==
    LET op == Lower(temporal_operator)
    IN  TemporalPredicate(OpArgs(IF EndsWithBy(op) THEN ByToBy(op) ELSE op, <<e1, e2>>))

array(array_elements) == Array(RootKeyword(L(array_elements)))

array_predicate(array_operator, e1, e2) ==
    LET op == Lower(array_operator)
    IN  ArrayPredicate(D([op |-> S(<<IF EndsWithBy(op) THEN ByToBy(op) ELSE op>>),
                          args |-> ArrayExpression(RootKeyword(L(<<e1, e2>>)))]))

\* plus, minus, multiply, divide, power, modulus, int_divide
ArithmeticOpOf(rule) ==
    CASE rule = "plus" -> "+" [] rule = "minus" -> "-" [] rule = "multiply" -> "*"
      [] rule = "divide" -> "/" [] rule = "power" -> "^" [] rule = "modulus" -> "%"
      [] rule = "int_divide" -> "div"
arithmetic(rule, o1, o2) == ArithmeticExpression(OpArgs(ArithmeticOpOf(rule), <<o1, o2>>))

\* A rewrite that puts the operand first and -1 second.
negative_OperandFirst(arithmetic_operand) ==
    ArithmeticExpression(OpArgs("*", <<arithmetic_operand, N(-1)>>))

negative(arithmetic_operand) == ArithmeticExpression(OpArgs("*", <<N(-1), arithmetic_operand>>))

function(identifier, argument_list) ==
    FunctionRef(D([function |-> Function(D([name |-> S(identifier), args |-> argument_list]))]))

property_name(lexeme) == PropertyRef(D([property |-> S(Strip(lexeme, "\""))]))

casei(expression) == [k |-> "Casei", casei |-> expression]
accenti(expression) == [k |-> "Accenti", accenti |-> expression]

bbox(coordinates) == BboxLiteral(D([bbox |-> L(coordinates)]))

point(coordinates) ==
    GeometryLiteral(D([type |-> S(<<"Point">>), coordinates |-> L(coordinates)]))

\* datetime.strptime(datestring, "%Y-%m-%d").date()
DATE(datestring) ==
    IF Len(datestring) = 1 /\ datestring[1] \in DateSyms THEN Date(datestring[1])
    ELSE ValidationError

\* The last character (the Z) is cut off, ".0" is added when there is no
\* fraction, strptime reads the rest and the result is stamped UTC.
DATE_TIME(datetimestring) ==
    LET cut == SubSeq(datetimestring, 1, Len(datetimestring) - 1)
        full == IF \E i \in 1..Len(cut) : cut[i] = ".000000" THEN cut ELSE cut \o <<".000000">>
    IN  IF Len(full) = 3 /\ full[1] \in DateSyms /\ full[2] \in TimeSyms
        THEN Datetime(full[1], HourOf(full[2]), TRUE, 0)
        ELSE ValidationError

DOTDOT(dotdot) == S(Strip(dotdot, QUOTE))

date_instant(date_) == DateInstant(D([date |-> date_]))
timestamp_instant(timestamp) == TimestampInstant(D([timestamp |-> timestamp]))
interval_instance(i1, i2) == IntervalInstance(D([interval |-> L(<<i1, i2>>)]))

(***************************************************************************)
(* The text parser.  The grammar file is modelled from the specification's *)
(* grammar essentials and from the type hints of the callbacks: OR over    *)
(* AND over an optional NOT over a boolean primary (a predicate, a boolean *)
(* literal, a parenthesised boolean expression); the comparison predicates *)
(* over scalar operands; additive over multiplicative over power over      *)
(* unary minus over primary.  The parser gives the parse tree: a tree is a *)
(* rule name over its children, a leaf is a token.  A rule whose run has   *)
(* one item passes the item up.  Every rule gives [ok, v, n]: whether it   *)
(* matched at token i, its tree, and the index of the next token.          *)
(***************************************************************************)
Tree(rule, children) == [k |-> "tree", rule |-> rule, children |-> children]
Tok(toks, i) == IF i <= Len(toks) THEN toks[i].t ELSE "EOF"
Res(v, n) == [ok |-> TRUE, v |-> v, n |-> n]
Fail == [ok |-> FALSE, v |-> None, n |-> 0]

SpatialOpTokens == {Upper(op) : op \in SpatialOperator}
TemporalOpTokens == {Upper(op) : op \in TemporalOperator}
ArrayOpTokens == {Upper(op) : op \in ArrayOperator}
ComparisonRule(tok) ==
    CASE tok = "=" -> "eq" [] tok = "<>" -> "neq" [] tok = "<" -> "lt" [] tok = ">" -> "gt"
      [] tok = "<=" -> "lteq" [] tok = ">=" -> "gteq"
ArithmeticLevelOps(level) ==
    CASE level = 1 -> {"+", "-"} [] level = 2 -> {"*", "/", "%", "DIV"} [] level = 3 -> {"^"}
      [] OTHER -> {}
ArithmeticRule(tok) ==
    CASE tok = "+" -> "plus" [] tok = "-" -> "minus" [] tok = "*" -> "multiply"
      [] tok = "/" -> "divide" [] tok = "^" -> "power" [] tok = "%" -> "modulus"
      [] tok = "DIV" -> "int_divide"

\* The lexeme of a character literal without its two enclosing apostrophes.
Inner(lexeme) == SubSeq(lexeme, 2, Len(lexeme) - 1)

RECURSIVE PItem(_, _, _), PList(_, _, _, _), PArithRest(_, _, _, _)

\* item (sep item)*: the items' trees.
PList(kind, sep, toks, i) ==
    LET item == PItem(kind, toks, i)
    IN  IF ~item.ok THEN Fail
        ELSE IF Tok(toks, item.n) = sep
             THEN LET rest == PList(kind, sep, toks, item.n + 1)
                  IN  IF rest.ok THEN Res(L(<<item.v>> \o rest.v.items), rest.n) ELSE Fail
        ELSE Res(L(<<item.v>>), item.n)

\* "(" a "," b ")" with both operands parsed by the same rule.
PPair(kind, toks, i) ==
    IF Tok(toks, i) # "(" THEN Fail
    ELSE LET a == PItem(kind, toks, i + 1)
         IN  IF ~(a.ok /\ Tok(toks, a.n) = ",") THEN Fail
             ELSE LET b == PItem(kind, toks, a.n + 1)
                  IN  IF b.ok /\ Tok(toks, b.n) = ")"
                      THEN Res(L(<<a.v, b.v>>), b.n + 1) ELSE Fail

\* "(" one item ")"
PWrapped(kind, toks, i) ==
    IF Tok(toks, i) # "(" THEN Fail
    ELSE LET a == PItem(kind, toks, i + 1)
         IN  IF a.ok /\ Tok(toks, a.n) = ")" THEN Res(a.v, a.n + 1) ELSE Fail

PBoolExpr(toks, i) ==
    LET run == PList("boolean_term", "OR", toks, i)
    IN  IF ~run.ok THEN Fail
        ELSE IF Len(run.v.items) = 1 THEN Res(run.v.items[1], run.n)
        ELSE Res(Tree("boolean_expression", run.v.items), run.n)

PBoolTerm(toks, i) ==
    LET run == PList("boolean_factor", "AND", toks, i)
    IN  IF ~run.ok THEN Fail
        ELSE IF Len(run.v.items) = 1 THEN Res(run.v.items[1], run.n)
        ELSE Res(Tree("boolean_term", run.v.items), run.n)

PBoolFactor(toks, i) ==
    IF Tok(toks, i) = "NOT"
    THEN LET p == PItem("boolean_primary", toks, i + 1)
         IN  IF p.ok THEN Res(Tree("not_", <<p.v>>), p.n) ELSE Fail
    ELSE PItem("boolean_primary", toks, i)

PBoolPrimary(toks, i) ==
    LET pred == PItem("predicate", toks, i)
    IN  IF pred.ok THEN pred
        ELSE IF Tok(toks, i) \in {"TRUE", "FALSE"}
             THEN Res(Token("BOOLEAN_LITERAL", toks[i].s), i + 1)
        ELSE PWrapped("boolean_expression", toks, i)

\* What follows the left operand of a comparison predicate; neg is TRUE
\* after the NOT of NOT LIKE, NOT BETWEEN, NOT IN.
PComparisonRest(left, neg, toks, i) ==
    CASE Tok(toks, i) \in BinaryComparisonOps /\ ~neg ->
            LET r == PItem("scalar_expression", toks, i + 1)
            IN  IF r.ok THEN Res(Tree(ComparisonRule(toks[i].t), <<left, r.v>>), r.n) ELSE Fail
      [] Tok(toks, i) = "LIKE" ->
            LET r == PItem("pattern_expression", toks, i + 1)
            IN  IF ~r.ok THEN Fail
                ELSE Res(Tree(IF neg THEN "not_like" ELSE "like",
                              <<Tree("character_expression", <<left>>), r.v>>), r.n)
      [] Tok(toks, i) = "BETWEEN" ->
            LET a == PItem("numeric_expression", toks, i + 1)
            IN  IF ~(a.ok /\ Tok(toks, a.n) = "AND") THEN Fail
                ELSE LET b == PItem("numeric_expression", toks, a.n + 1)
                     IN  IF ~b.ok THEN Fail
                         ELSE Res(Tree(IF neg THEN "is_not_between" ELSE "is_between",
                                       <<left, a.v, b.v>>), b.n)
      [] Tok(toks, i) = "IN" /\ Tok(toks, i + 1) = "(" ->
            LET list == PList("scalar_expression", ",", toks, i + 2)
            IN  IF ~(list.ok /\ Tok(toks, list.n) = ")") THEN Fail
                ELSE Res(Tree(IF neg THEN "not_in_list" ELSE "in_list",
                              <<left, Tree("list_values", list.v.items)>>), list.n + 1)
      [] Tok(toks, i) = "IS" /\ Tok(toks, i + 1) = "NULL" /\ ~neg ->
            Res(Tree("is_null", <<left>>), i + 2)
      [] Tok(toks, i) = "IS" /\ Tok(toks, i + 1) = "NOT" /\ Tok(toks, i + 2) = "NULL" /\ ~neg ->
            Res(Tree("is_not_null", <<left>>), i + 3)
      [] OTHER -> Fail

PPredicate(toks, i) ==
    IF Tok(toks, i) \in SpatialOpTokens \cup TemporalOpTokens \cup ArrayOpTokens
    THEN LET ab == PPair(IF Tok(toks, i) \in ArrayOpTokens THEN "array_expression"
                         ELSE "scalar_expression", toks, i + 1)
             rule == IF Tok(toks, i) \in SpatialOpTokens THEN "spatial_predicate"
                     ELSE IF Tok(toks, i) \in TemporalOpTokens THEN "temporal_predicate"
                     ELSE "array_predicate"
         IN  IF ab.ok THEN Res(Tree(rule, <<toks[i]>> \o ab.v.items), ab.n) ELSE Fail
    ELSE LET left == PItem("scalar_expression", toks, i)
         IN  IF ~left.ok THEN Fail
             ELSE IF Tok(toks, left.n) = "NOT"
                  THEN PComparisonRest(left.v, TRUE, toks, left.n + 1)
             ELSE PComparisonRest(left.v, FALSE, toks, left.n)

\* Levels 1 and 2 (additive, multiplicative) associate to the left.
PArithRest(level, left, toks, i) ==
    IF Tok(toks, i) \in ArithmeticLevelOps(level)
    THEN LET r == PItem(IF level = 1 THEN "multiplicative" ELSE "power", toks, i + 1)
         IN  IF r.ok
             THEN PArithRest(level, Tree(ArithmeticRule(toks[i].t), <<left, r.v>>), toks, r.n)
             ELSE Fail
    ELSE Res(left, i)

PAdditive(toks, i) ==
    LET l == PItem("multiplicative", toks, i)
    IN  IF l.ok THEN PArithRest(1, l.v, toks, l.n) ELSE Fail

PMultiplicative(toks, i) ==
    LET l == PItem("power", toks, i)
    IN  IF l.ok THEN PArithRest(2, l.v, toks, l.n) ELSE Fail

\* Power associates to the right.
PPower(toks, i) ==
    LET l == PItem("unary", toks, i)
    IN  IF ~l.ok THEN Fail
        ELSE IF Tok(toks, l.n) \in ArithmeticLevelOps(3)
             THEN LET r == PItem("power", toks, l.n + 1)
                  IN  IF r.ok THEN Res(Tree("power", <<l.v, r.v>>), r.n) ELSE Fail
        ELSE l

PUnary(toks, i) ==
    IF Tok(toks, i) = "-"
    THEN LET o == PItem("primary", toks, i + 1)
         IN  IF o.ok THEN Res(Tree("negative", <<o.v>>), o.n) ELSE Fail
    ELSE PItem("primary", toks, i)

PFunction(toks, i) ==
    IF Tok(toks, i + 2) = ")" THEN Res(Tree("function", <<toks[i]>>), i + 3)
    ELSE LET args == PList("argument", ",", toks, i + 2)
         IN  IF args.ok /\ Tok(toks, args.n) = ")"
             THEN Res(Tree("function", <<toks[i], Tree("argument_list", args.v.items)>>),
                      args.n + 1)
             ELSE Fail

\* DATE('...') and TIMESTAMP('...'): the terminal is what the apostrophes enclose.
PInstant(rule, terminal, toks, i) ==
    IF Tok(toks, i + 1) = "(" /\ Tok(toks, i + 2) = "CHARACTER_LITERAL" /\ Tok(toks, i + 3) = ")"
    THEN Res(Tree(rule, <<Token(terminal, Inner(toks[i + 2].s))>>), i + 4)
    ELSE Fail

PPrimary(toks, i) ==
    CASE Tok(toks, i) \in {"CHARACTER_LITERAL", "SIGNED_NUMBER"} -> Res(toks[i], i + 1)
      [] Tok(toks, i) \in {"TRUE", "FALSE"} -> Res(Token("BOOLEAN_LITERAL", toks[i].s), i + 1)
      [] Tok(toks, i) = "QUOTED" -> Res(Tree("property_name", <<toks[i]>>), i + 1)
      [] Tok(toks, i) = "IDENTIFIER" ->
            IF Tok(toks, i + 1) = "(" THEN PFunction(toks, i)
            ELSE Res(Tree("property_name", <<toks[i]>>), i + 1)
      [] Tok(toks, i) = "DATE" -> PInstant("date_instant", "DATE", toks, i)
      [] Tok(toks, i) = "TIMESTAMP" -> PInstant("timestamp_instant", "DATE_TIME", toks, i)
      [] Tok(toks, i) = "INTERVAL" ->
            LET ab == PPair("interval_endpoint", toks, i + 1)
            IN  IF ab.ok THEN Res(Tree("interval_instance", ab.v.items), ab.n) ELSE Fail
      [] Tok(toks, i) \in {"CASEI", "ACCENTI"} ->
            LET c == PWrapped("character_expression", toks, i + 1)
            IN  IF c.ok THEN Res(Tree(IF Tok(toks, i) = "CASEI" THEN "casei" ELSE "accenti",
                                      <<c.v>>), c.n)
                ELSE Fail
      [] Tok(toks, i) = "BBOX" ->
            IF Tok(toks, i + 1) # "(" THEN Fail
            ELSE LET cs == PList("number", ",", toks, i + 2)
                 IN  IF cs.ok /\ Tok(toks, cs.n) = ")" /\ Len(cs.v.items) \in {4, 6}
                     THEN Res(Tree("bbox", cs.v.items), cs.n + 1) ELSE Fail
      [] Tok(toks, i) = "POINT" ->
            IF Tok(toks, i + 1) = "(" /\ Tok(toks, i + 2) = "SIGNED_NUMBER"
                  /\ Tok(toks, i + 3) = "SIGNED_NUMBER" /\ Tok(toks, i + 4) = ")"
            THEN Res(Tree("point", <<Tree("coordinate", <<toks[i + 2], toks[i + 3]>>)>>), i + 5)
            ELSE Fail
      [] Tok(toks, i) = "(" ->
            LET a == PWrapped("scalar_expression", toks, i)
            IN  IF a.ok THEN a ELSE PWrapped("boolean_expression", toks, i)
      [] OTHER -> Fail

PCharacter(toks, i) ==
    LET c == PItem("primary", toks, i)
    IN  IF c.ok THEN Res(Tree("character_expression", <<c.v>>), c.n) ELSE Fail

PPattern(toks, i) ==
    CASE Tok(toks, i) = "CHARACTER_LITERAL" ->
            Res(Tree("pattern_expression", <<toks[i]>>), i + 1)
      [] Tok(toks, i) \in {"CASEI", "ACCENTI"} ->
            LET c == PWrapped("pattern_expression", toks, i + 1)
            IN  IF c.ok
                THEN Res(Tree("pattern_expression",
                              <<Tree(IF Tok(toks, i) = "CASEI" THEN "casei" ELSE "accenti",
                                     <<c.v>>)>>), c.n)
                ELSE Fail
      [] OTHER -> Fail

\* An endpoint of an INTERVAL: '..', a date, a timestamp, a property, a function.
PEndpoint(toks, i) ==
    IF Tok(toks, i) = "CHARACTER_LITERAL"
    THEN LET inner == Inner(toks[i].s)
         IN  IF inner = <<"..">> THEN Res(Token("DOTDOT", toks[i].s), i + 1)
             ELSE IF Len(inner) = 1 THEN Res(Token("DATE", inner), i + 1)
             ELSE Res(Token("DATE_TIME", inner), i + 1)
    ELSE IF Tok(toks, i) \in {"QUOTED", "IDENTIFIER"} THEN PItem("primary", toks, i)
    ELSE Fail

\* An operand of an array predicate: an array literal, a property, a function.
PArrayItem(toks, i) ==
    IF Tok(toks, i) = "(" /\ Tok(toks, i + 1) = ")" THEN Res(Tree("array", <<>>), i + 2)
    ELSE IF Tok(toks, i) = "("
    THEN LET elems == PList("array_element", ",", toks, i + 1)
         IN  IF elems.ok /\ Tok(toks, elems.n) = ")"
             THEN Res(Tree("array", elems.v.items), elems.n + 1) ELSE Fail
    ELSE IF Tok(toks, i) \in {"QUOTED", "IDENTIFIER"} THEN PItem("primary", toks, i)
    ELSE Fail

\* An element of an array literal: a scalar, or an array literal.
PArrayElement(toks, i) ==
    LET o == PItem("scalar_expression", toks, i)
    IN  IF o.ok THEN o ELSE PItem("array_expression", toks, i)

\* An argument of a function: a boolean expression that ends at the next
\* comma or parenthesis, or what an array may hold.
PArgument(toks, i) ==
    LET b == PItem("boolean_expression", toks, i)
    IN  IF b.ok /\ Tok(toks, b.n) \in {",", ")"} THEN b
        ELSE PItem("array_element", toks, i)

PNumber(toks, i) == IF Tok(toks, i) = "SIGNED_NUMBER" THEN Res(toks[i], i + 1) ELSE Fail

\* The rule of the grammar named kind, at token i.
PItem(kind, toks, i) ==
    CASE kind = "boolean_expression" -> PBoolExpr(toks, i)
      [] kind = "boolean_term" -> PBoolTerm(toks, i)
      [] kind = "boolean_factor" -> PBoolFactor(toks, i)
      [] kind = "boolean_primary" -> PBoolPrimary(toks, i)
      [] kind = "predicate" -> PPredicate(toks, i)
      [] kind \in {"scalar_expression", "numeric_expression"} -> PAdditive(toks, i)
      [] kind = "multiplicative" -> PMultiplicative(toks, i)
      [] kind = "power" -> PPower(toks, i)
      [] kind = "unary" -> PUnary(toks, i)
      [] kind = "primary" -> PPrimary(toks, i)
      [] kind = "character_expression" -> PCharacter(toks, i)
      [] kind = "pattern_expression" -> PPattern(toks, i)
      [] kind = "interval_endpoint" -> PEndpoint(toks, i)
      [] kind = "array_expression" -> PArrayItem(toks, i)
      [] kind = "array_element" -> PArrayElement(toks, i)
      [] kind = "argument" -> PArgument(toks, i)
      [] kind = "number" -> PNumber(toks, i)

ParseError == [k |-> "ParseError"]

\* parser.parse(text): the parse tree of the start rule, or ParseError when
\* the text is not in the grammar.
Parse(txt) ==
    LET toks == Lex(txt, 1)
    IN  IF toks = LexError THEN ParseError
        ELSE LET e == PItem("boolean_expression", toks, 1)
             IN  IF e.ok /\ e.n = Len(toks) + 1 THEN Tree("start", <<e.v>>) ELSE ParseError

(***************************************************************************)
(* Transformer.transform: bottom-up over the parse tree, the callback of   *)
(* each terminal on its lexeme and the callback of each rule on the values *)
(* of its children.  A token without a callback stays the str it is.       *)
(***************************************************************************)
Terminal(token) ==
    CASE token.t = "CHARACTER_LITERAL" -> S(CHARACTER_LITERAL(token.s))
      [] token.t = "SIGNED_NUMBER" -> SIGNED_NUMBER(token.s[1])
      [] token.t = "BOOLEAN_LITERAL" -> BOOLEAN_LITERAL(token.s[1])
      [] token.t = "DATE" -> DATE(token.s)
      [] token.t = "DATE_TIME" -> DATE_TIME(token.s)
      [] token.t = "DOTDOT" -> DOTDOT(token.s)
      [] OTHER -> S(token.s)

Rule(rule, args) ==
    CASE rule = "start" -> start(args[1])
      [] rule = "boolean_expression" -> boolean_expression(args)
      [] rule = "boolean_term" -> boolean_term(args)
      [] rule = "not_" -> not_(args[1])
      [] rule \in {"eq", "neq", "lt", "gt", "lteq", "gteq"} ->
            binary_comparison(rule, args[1], args[2])
      [] rule = "pattern_expression" -> pattern_expression(args[1])
      [] rule = "character_expression" -> character_expression(args[1])
      [] rule = "like" -> like(args[1], args[2])
      [] rule = "not_like" -> not_like(args[1], args[2])
      [] rule = "is_between" -> is_between(args[1], args[2], args[3])
      [] rule = "is_not_between" -> is_not_between(args[1], args[2], args[3])
      [] rule \in {"list_values", "argument_list"} -> L(args)
      [] rule = "in_list" -> in_list(args[1], args[2].items)
      [] rule = "not_in_list" -> not_in_list(args[1], Tail(args))
      [] rule = "is_null" -> is_null(args[1])
      [] rule = "is_not_null" -> is_not_null(args[1])
      [] rule = "spatial_predicate" -> spatial_predicate(args[1].s[1], args[2], args[3])
      [] rule = "temporal_predicate" -> temporal_predicate(args[1].s[1], args[2], args[3])
      [] rule = "array" -> array(args)
      [] rule = "array_predicate" -> array_predicate(args[1].s[1], args[2], args[3])
      [] rule \in {"plus", "minus", "multiply", "divide", "power", "modulus", "int_divide"} ->
            arithmetic(rule, args[1], args[2])
      [] rule = "negative" -> negative(args[1])
      [] rule = "function" ->
            function(args[1].s, IF Len(args) = 2 THEN args[2] ELSE None)
      [] rule = "property_name" -> property_name(args[1].s)
      [] rule = "casei" -> casei(args[1])
      [] rule = "accenti" -> accenti(args[1])
      [] rule = "coordinate" -> L(args)
      [] rule = "point" -> point(args[1].items)
      [] rule = "bbox" -> bbox(args)
      [] rule = "date_instant" -> date_instant(args[1])
      [] rule = "timestamp_instant" -> timestamp_instant(args[1])
      [] rule = "interval_instance" -> interval_instance(args[1], args[2])

RECURSIVE Transform(_)
Transform(tree) ==
    IF tree.k = "token" THEN Terminal(tree)
    ELSE Rule(tree.rule, [i \in 1..Len(tree.children) |-> Transform(tree.children[i])])

\* transformer.transform(parser.parse(text)): the AST, ParseError when the
\* text is not in the grammar, ValidationError when a constructor called by
\* a callback refuses its arguments.
ParseText(txt) ==
    LET tree == Parse(txt) IN IF tree = ParseError THEN ParseError ELSE Transform(tree)

(***************************************************************************)
(* The JSON values handed to the decoder, and the texts handed to the      *)
(* parser.  They are built in families: operands of every kind (well and   *)
(* ill typed), the predicates over them, and the logical operators nested  *)
(* over the predicates.                                                    *)
(***************************************************************************)
JProp(name) == D([property |-> S(name)])
JFun(name, args) == D([function |-> D([name |-> S(name), args |-> L(args)])])
JOp(op, args) == D([op |-> S(<<op>>), args |-> L(args)])
JDate == D([date |-> S(<<"2020-01-01">>)])
JTimestamp(zone) == D([timestamp |-> S(<<"2020-01-01", "T10:00:00">> \o zone)])
\* The same JSON object with one more key.
WithExtra(obj) == D(obj.f @@ [extra |-> N(1)])

RECURSIVE SeqsOfLen(_, _)
SeqsOfLen(set, n) ==
    IF n = 0 THEN {<<>>}
    ELSE {<<x>> \o rest : x \in set, rest \in SeqsOfLen(set, n - 1)}
SeqsUpTo(set, n) == UNION {SeqsOfLen(set, m) : m \in 0..n}

JTimestamps ==
    {JTimestamp(<<"Z">>), JTimestamp(<<"+02:00">>), JTimestamp(<<>>),
     D([timestamp |-> S(<<"2020-01-01">>)])}

WellTypedOperands ==
    {B(TRUE), N(1), S(<<"a">>), S(<<"a", QUOTE>>), JProp(<<"a">>), JProp(<<>>),
     JProp(<<"a", "\"">>), JFun(<<"f">>, <<>>), JFun(<<"f">>, <<N(1), B(TRUE)>>),
     D([function |-> D([name |-> S(<<"f">>)])]), JDate,
     JOp("+", <<N(1), JProp(<<"a">>)>>), JOp("*", <<N(-1), N(2)>>),
     D([casei |-> S(<<"a">>)])} \cup JTimestamps

IllTypedOperands ==
    {D([property |-> N(1)]), D([property |-> B(TRUE)]),
     D([function |-> D([name |-> N(1)])]), D([function |-> D([name |-> B(TRUE)])]),
     JOp("+", <<B(TRUE), N(1)>>), JOp("-", <<N(1), B(FALSE)>>), JOp("+", <<N(1), S(<<"a">>)>>)}

ExtraKeyOperands ==
    {WithExtra(JProp(<<"a">>)), WithExtra(JFun(<<"f">>, <<>>)), WithExtra(JDate),
     WithExtra(JTimestamp(<<"Z">>)), WithExtra(JOp("+", <<N(1), N(2)>>)),
     WithExtra(D([interval |-> L(<<S(<<"2020-01-01">>), S(<<"..">>)>>)])),
     WithExtra(D([bbox |-> L(<<N(0), N(0), N(1), N(1)>>)]))}

JOperands == WellTypedOperands \cup IllTypedOperands \cup ExtraKeyOperands

JComparisons ==
    {JOp(op, <<x, y>>) : op \in {"=", "<"}, x \in JOperands, y \in {N(1), B(FALSE)}}

JLikes ==
    {JOp("like", <<x, p>>) :
        x \in {JProp(<<"a">>), S(<<"a">>), N(1), D([casei |-> JProp(<<"a">>)])},
        p \in {S(<<"a">>), S(<<QUOTE>>), N(1), B(TRUE), D([accenti |-> S(<<"a">>)])}}

JBetweens ==
    {JOp("between", <<x, y, z>>) :
        x \in {N(1), B(TRUE), JProp(<<"a">>)},
        y \in {N(1), B(FALSE), JOp("+", <<N(1), N(2)>>)},
        z \in {N(2), B(TRUE), JFun(<<"f">>, <<>>)}}

JInLists ==
    {JOp("in", <<x, L(list)>>) :
        x \in {JProp(<<"a">>), N(1)}, list \in SeqsUpTo({N(1), S(<<"a">>)}, MaxList)}

JIsNulls ==
    {D([op |-> S(<<"isNull">>), args |-> x]) : x \in {JProp(<<"a">>), N(1), JDate, B(TRUE)}}

JIntervals ==
    {D([interval |-> L(<<x, y>>)]) :
        x \in {S(<<"2020-01-01">>), S(<<"2020-01-01", "T10:00:00", "+02:00">>),
               S(<<"..">>), JProp(<<"a">>), D([function |-> D([name |-> S(<<"f">>)])])},
        y \in {S(<<"2020-01-01", "T10:00:00", "Z">>), S(<<"..">>), S(<<"2020-01-01">>)}}

JTemporals ==
    {JOp(op, <<x, y>>) :
        op \in {"t_after", "t_metBy"}, x \in {JProp(<<"a">>), JDate},
        y \in JTimestamps \cup JIntervals \cup ExtraKeyOperands}

JSpatials ==
    {JOp("s_intersects", <<JProp(<<"a">>), y>>) :
        y \in {D([bbox |-> L(<<N(0), N(0), N(1), N(1)>>)]),
               D([bbox |-> L(<<N(0), N(0), N(1)>>)]),
               D([type |-> S(<<"Point">>), coordinates |-> L(<<N(0), N(1)>>)]),
               WithExtra(D([bbox |-> L(<<N(0), N(0), N(1), N(1)>>)]))}}

JArrays ==
    {JOp(op, <<JProp(<<"a">>), y>>) :
        op \in {"a_equals", "a_containedBy"},
        y \in {L(<<N(1), S(<<"a">>)>>), L(<<>>), JFun(<<"f">>, <<>>), N(1)}}
    \cup {D([op |-> S(<<"a_equals">>),
             args |-> D([root |-> L(<<JProp(<<"a">>), L(<<N(1)>>)>>)])])}

JPredicates ==
    JComparisons \cup JLikes \cup JBetweens \cup JInLists \cup JIsNulls \cup JTemporals
        \cup JSpatials \cup JArrays
        \cup {WithExtra(JOp("=", <<JProp(<<"a">>), N(1)>>)),
              WithExtra(JOp("not", <<B(TRUE)>>)),
              WithExtra(JOp("and", <<B(TRUE), B(FALSE)>>)),
              JOp("=", <<N(1)>>), JOp("=", <<N(1), N(1), N(1)>>), JOp("between", <<N(1), N(2)>>),
              JOp("eq", <<N(1), N(1)>>)}

\* The logical operators, and a boolean operand of a comparison, one level
\* over the values of a set.
JLogic(set) ==
    {JOp("not", <<x>>) : x \in set}
        \cup {JOp(op, list) : op \in {"and", "or"}, list \in SeqsUpTo(set, MaxList)}
        \cup {JOp("=", <<x, B(FALSE)>>) : x \in set}
        \cup {JOp("=", <<B(FALSE), x>>) : x \in set}

JLogicBase ==
    {B(TRUE), JOp("=", <<JProp(<<"a">>), N(1)>>), JFun(<<"f">>, <<N(1)>>),
     JOp("in", <<JProp(<<"a">>), L(<<>>)>>), JOp("like", <<JProp(<<>>), S(<<"a">>)>>)}

JLogicNested ==
    {JOp("not", <<B(TRUE)>>), JOp("and", <<B(TRUE), B(FALSE)>>), JOp("and", <<B(TRUE)>>),
     JOp("or", <<>>), JOp("=", <<B(TRUE), B(FALSE)>>),
     JOp("or", <<B(FALSE), JOp("=", <<N(1), N(2)>>)>>)}

\* Op nodes with fewer and with more arguments than their operator takes, at
\* the root and as operands, and op values that name no operator.
JArities ==
    {JOp(op, args) :
        op \in {"not", "=", "like", "between", "s_intersects", "t_after", "equals"},
        args \in {<<>>, <<JProp(<<"a">>)>>, <<JProp(<<"a">>), JProp(<<"a">>)>>,
                  <<JProp(<<"a">>), JProp(<<"a">>), JProp(<<"a">>)>>,
                  <<N(1), N(1), N(1), N(1)>>}}
        \cup {JOp("not", <<B(TRUE), B(FALSE)>>),
              D([op |-> S(<<"not">>), args |-> B(TRUE)]),
              D([op |-> S(<<"=">>), args |-> D([a |-> N(1), b |-> N(2)])])}
        \cup {JOp("=", <<JOp(op, args), N(1)>>) :
                 op \in {"+", "div", "plus"},
                 args \in {<<N(1)>>, <<N(1), N(2)>>, <<N(1), N(2), N(3)>>}}
        \cup {JOp("not", <<JOp("<>", <<N(1)>>)>>),
              JOp("and", <<B(TRUE), JOp("between", <<N(1), N(2)>>)>>)}

JsonInputs ==
    {B(TRUE), B(FALSE), N(1), S(<<"a">>), None, L(<<>>), JProp(<<"a">>), JDate,
     JFun(<<"f">>, <<N(1)>>), D([function |-> D([name |-> S(<<"f">>)])])}
        \cup JPredicates \cup JLogic(JLogicBase) \cup JLogic(JLogicNested) \cup JArities

\* The four negated forms of the text, alone and inside a larger expression,
\* and the forms they negate.
SugarTexts ==
    { <<"a", "NOT", "LIKE", QUOTE, "a", QUOTE>>, <<"a", "LIKE", QUOTE, "a", QUOTE>>,
      <<"a", "NOT", "BETWEEN", "1", "AND", "f", "(", ")">>,
      <<"a", "NOT", "IN", "(", "1", ",", QUOTE, "a", QUOTE, ")">>,
      <<"a", "IN", "(", "1", ",", QUOTE, "a", QUOTE, ")">>,
      <<"a", "NOT", "IN", "(", "2", ",", "1", ")">>,
      <<"a", "IS", "NULL">>, <<"f", "(", "1", ")", "IS", "NOT", "NULL">>,
      <<"TRUE", "AND", "a", "NOT", "LIKE", QUOTE, "a", QUOTE>>,
      <<"NOT", "a", "IS", "NOT", "NULL">> }

\* Texts with a unary minus before a property, a function and a number, and
\* arithmetic of every precedence level.
ArithmeticTexts ==
    { <<"-", "f", "(", ")", "=", "1">>, <<"-", "1", "<", "a">>,
      <<"a", "=", "2", "^", "-", "a", "^", "2">>, <<"a", "-", "-", "1", "=", "-1">>,
      <<"1", "-", "2", "-", "a", "=", "2", "/", "a", "DIV", "2">>,
      <<"a", "%", "2", ">=", "0">> }

TextInputs ==
    { <<"TRUE">>, <<"a", "=", "1">>, <<"\"", "\"", "=", "1">>, <<"(", "TRUE", ")">>,
      <<"TRUE", "AND", "FALSE", "AND", "TRUE">>, <<"TRUE", "OR", "FALSE", "AND", "TRUE">>,
      <<"NOT", "a", "IN", "(", ")">>, <<"a", "NOT", "IN", "(", "1", ")">>,
      <<"a", "IS", "NOT", "NULL">>, <<"-", "a", "=", "1", "+", "2", "*", "2">>,
      <<"a", "NOT", "BETWEEN", "1", "AND", "2">>, <<"f", "(", ")">>,
      <<"a", "=", QUOTE, "a", "\\", QUOTE, QUOTE>>, <<"a", "=", QUOTE, "a">> }
        \cup SugarTexts \cup ArithmeticTexts

(***************************************************************************)
(* Spec: the conversions of the library, one call per step.  A JSON value  *)
(* is decoded (BooleanExpression.model_validate); the AST is rendered      *)
(* (str) and the text parsed and built (parser.parse, transformer          *)
(* .transform); the decoded or the built AST is encoded (model_dump) and   *)
(* the encoding decoded again.  A run may also start from a text.          *)
(***************************************************************************)
Init ==
    /\ chars = <<>> /\ lit = <<>> /\ back = <<>>
    /\ ast = None /\ built = None /\ encoded = None /\ redecoded = None
    /\ rootKeyword \in RootKeywords
    /\ \/ phase = "json" /\ input \in JsonInputs /\ text = <<>>
       \/ phase = "rendered" /\ input = None /\ text \in TextInputs

DecodeJson ==
    /\ phase = "json"
    /\ ast' = BooleanExpression(input)
    /\ phase' = IF Valid(ast') THEN "decoded" ELSE "rejected"
    /\ UNCHANGED <<chars, lit, back, input, text, built, encoded, redecoded, rootKeyword>>

RenderText ==
    /\ phase = "decoded"
    /\ text' = Str(ast)
    /\ phase' = "rendered"
    /\ UNCHANGED <<chars, lit, back, input, ast, built, encoded, redecoded, rootKeyword>>

BuildText ==
    /\ phase = "rendered"
    /\ built' = ParseText(text)
    /\ phase' = IF built'.k = "BooleanExpression" THEN "built" ELSE "unbuilt"
    /\ UNCHANGED <<chars, lit, back, input, ast, text, encoded, redecoded, rootKeyword>>

EncodeDecoded ==
    /\ phase = "decoded"
    /\ encoded' = ToJson(ast)
    /\ phase' = "encoded"
    /\ UNCHANGED <<chars, lit, back, input, ast, text, built, redecoded, rootKeyword>>

EncodeBuilt ==
    /\ phase = "built"
    /\ encoded' = ToJson(built)
    /\ phase' = "encoded_built"
    /\ UNCHANGED <<chars, lit, back, input, ast, text, built, redecoded, rootKeyword>>

DecodeEncoded ==
    /\ phase \in {"encoded", "encoded_built"}
    /\ redecoded' = BooleanExpression(encoded)
    /\ phase' = IF phase = "encoded" THEN "redecoded" ELSE "redecoded_built"
    /\ UNCHANGED <<chars, lit, back, input, ast, text, built, encoded, rootKeyword>>

Next ==
    \/ DecodeJson
    \/ RenderText
    \/ BuildText
    \/ EncodeDecoded
    \/ EncodeBuilt
    \/ DecodeEncoded

Spec == Init /\ [][Next]_vars

\* Every value inside a value: the instances, the lists and the scalars.
RECURSIVE Nodes(_)
Children(v) ==
    CASE v.k = "list" -> {v.items[i] : i \in 1..Len(v.items)}
      [] v.k \in {"BooleanExpression", "CharacterExpression", "PatternExpression", "Array",
                  "IntervalArrayItems", "ArrayExpression"} -> {v.root}
      [] v.k \in {"NotExpression", "BinaryComparisonPredicate", "IsLikePredicate",
                  "IsBetweenPredicate", "IsInListPredicate", "IsNullPredicate",
                  "SpatialPredicate", "TemporalPredicate", "ArrayPredicate",
                  "AndOrExpression", "ArithmeticExpression"} -> {v.args}
      [] v.k = "Function" -> {v.name, v.args}
      [] v.k = "FunctionRef" -> {v.function}
      [] v.k = "PropertyRef" -> {v.property}
      [] v.k = "DateInstant" -> {v.date}
      [] v.k = "TimestampInstant" -> {v.timestamp}
      [] v.k = "BboxLiteral" -> {v.bbox}
      [] v.k = "IntervalInstance" -> {v.interval}
      [] v.k = "Casei" -> {v.casei}
      [] v.k = "Accenti" -> {v.accenti}
      [] OTHER -> {}
Nodes(v) == {v} \cup UNION {Nodes(c) : c \in Children(v)}

\* The ASTs the run has produced so far, by the decoder and by the builder.
Produced ==
    (IF ast.k = "BooleanExpression" THEN {ast} ELSE {})
        \cup (IF built.k = "BooleanExpression" THEN {built} ELSE {})
ProducedNodes == UNION {Nodes(a) : a \in Produced}

(***************************************************************************)
(* SpecLiteral: a string is emitted as a character literal and built back. *)
(***************************************************************************)
InitLiteral ==
    /\ phase = "string"
    /\ chars \in Strings
    /\ lit = <<>>
    /\ back = <<>>
    /\ input = None /\ ast = None /\ text = <<>>
    /\ built = None /\ encoded = None /\ redecoded = None
    /\ rootKeyword = "root"

EmitLiteral ==
    /\ phase = "string"
    /\ lit' = make_char_literal(chars)
    /\ phase' = "literal"
    /\ UNCHANGED <<chars, back, input, ast, text, built, encoded, redecoded, rootKeyword>>

BuildLiteral ==
    /\ phase = "literal"
    /\ back' = CHARACTER_LITERAL(lit)
    /\ phase' = "built"
    /\ UNCHANGED <<chars, lit, input, ast, text, built, encoded, redecoded, rootKeyword>>

NextLiteral == EmitLiteral \/ BuildLiteral

SpecLiteral == InitLiteral /\ [][NextLiteral]_vars

(***************************************************************************)
(* C1.  Character-literal escaping law: for every string, emitting it      *)
(* with make_char_literal and building the literal back with the text      *)
(* builder's CHARACTER_LITERAL gives back the string itself.               *)
(***************************************************************************)
C1_EscapeRoundTrip == phase = "built" => back = chars

(***************************************************************************)
(* The JSON values in operand position inside a JSON value: the value, the *)
(* items of its args (or its single args value), the arguments of its      *)
(* function, recursively.                                                  *)
(***************************************************************************)
RECURSIVE OperandsOf(_)
OperandsOf(j) ==
    {j} \cup
    (IF j.k = "list" THEN UNION {OperandsOf(j.items[i]) : i \in 1..Len(j.items)}
     ELSE IF j.k = "dict" /\ "args" \in DOMAIN j.f THEN OperandsOf(j.f.args)
     ELSE IF j.k = "dict" /\ "function" \in DOMAIN j.f THEN OperandsOf(j.f.function)
     ELSE {})

HasOp(j, ops) == j.k = "dict" /\ "op" \in DOMAIN j.f /\ IsLiteral(j.f.op, ops)
ArgsOf(j) == IF "args" \in DOMAIN j.f /\ j.f.args.k = "list" THEN j.f.args.items ELSE <<>>

(***************************************************************************)
(* C2.  Text round trip: for every AST the JSON decoder accepts, parsing   *)
(* and building the text rendered for it gives an AST equal to it.         *)
(***************************************************************************)
C2_TextRoundTrip == (phase \in {"built", "unbuilt"} /\ input # None) => built = ast

IsIllTyped(j) ==
    \/ HasOp(j, {"between"} \cup ArithmeticOps)
          /\ \E i \in 1..Len(ArgsOf(j)) : ArgsOf(j)[i].k = "bool"
    \/ HasOp(j, {"like"}) /\ Len(ArgsOf(j)) = 2 /\ ArgsOf(j)[2].k \in {"num", "bool"}
    \/ j.k = "dict" /\ "property" \in DOMAIN j.f /\ j.f.property.k \in {"num", "bool"}
    \/ j.k = "dict" /\ "name" \in DOMAIN j.f /\ j.f.name.k \in {"num", "bool"}

NumericKinds == {"num", "PropertyRef", "FunctionRef", "ArithmeticExpression"}

IsWellTyped(node) ==
    CASE node.k \in {"IsBetweenPredicate", "ArithmeticExpression"} ->
            \A i \in 1..Len(node.args.items) : node.args.items[i].k \in NumericKinds
      [] node.k = "IsLikePredicate" ->
            /\ node.args.items[2].k = "PatternExpression"
            /\ node.args.items[2].root.k \in {"str", "Casei", "Accenti"}
      [] node.k = "PropertyRef" -> node.property.k = "str"
      [] node.k = "Function" -> node.name.k = "str"
      [] OTHER -> TRUE

C4_StrictTyping ==
    /\ phase = "decoded" => \A j \in OperandsOf(input) : ~IsIllTyped(j)
    /\ \A node \in ProducedNodes : IsWellTyped(node)

\* between with a boolean first operand has been rejected.
C4_Witness == phase = "rejected" /\ input = JOp("between", <<B(TRUE), N(1), N(2)>>)

(***************************************************************************)
(* C5.  A FunctionRef is accepted in boolean position: a JSON value of the *)
(* shape {"function": {"name": n, "args": [...]}} decodes as a             *)
(* BooleanExpression at the root and as an argument of and, or, not.       *)
(***************************************************************************)
IsFunctionShaped(j) == j.k = "dict" /\ DOMAIN j.f = {"function"} /\ Valid(FunctionRef(j))

HasFunctionInBooleanPosition(j) ==
    \/ IsFunctionShaped(j)
    \/ /\ \/ HasOp(j, {"not"}) /\ Len(ArgsOf(j)) = 1
          \/ HasOp(j, {"and", "or"}) /\ Len(ArgsOf(j)) >= 2
       /\ \A i \in 1..Len(ArgsOf(j)) : ArgsOf(j)[i].k = "bool" \/ IsFunctionShaped(ArgsOf(j)[i])
       /\ \E i \in 1..Len(ArgsOf(j)) : IsFunctionShaped(ArgsOf(j)[i])

C5_FunctionInBooleanPosition ==
    (phase \in {"decoded", "rejected"} /\ HasFunctionInBooleanPosition(input))
        => phase = "decoded"

(***************************************************************************)
(* C6.  Extraneous keys are rejected: a JSON value in which some object    *)
(* carries the keys of its variant and one more key is never decoded.      *)
(***************************************************************************)
VariantKeys ==
    {{"op", "args"}, {"property"}, {"function"}, {"date"}, {"timestamp"}, {"interval"},
     {"bbox"}}

HasExtraneousKey(j) ==
    j.k = "dict" /\ \E keys \in VariantKeys : keys \subseteq DOMAIN j.f /\ keys # DOMAIN j.f

C6_ExtraneousKeysRejected ==
    phase = "decoded" => \A j \in OperandsOf(input) : ~HasExtraneousKey(j)

(***************************************************************************)
(* C7.  In every AST the decoder or the text builder produces, the list of *)
(* an in predicate is not empty.                                           *)
(***************************************************************************)
C7_InListNonEmpty ==
    \A node \in ProducedNodes :
        node.k = "IsInListPredicate" => node.args.items[2].items # <<>>

(***************************************************************************)
(* C8.  In every AST the decoder or the text builder produces, every and / *)
(* or node has at least two arguments, and a JSON value with an and / or   *)
(* node of fewer than two arguments at any depth is rejected.              *)
(***************************************************************************)
IsShortAndOr(j) == HasOp(j, {"and", "or"}) /\ j.f.args.k = "list" /\ Len(j.f.args.items) < 2

C9_TimestampsUtc ==
    \A node \in ProducedNodes : node.k = "datetime" => node.aware /\ node.off = 0

(***************************************************************************)
(* C10.  The property name of every PropertyRef in an AST the decoder or   *)
(* the text builder produces is a non-empty string.                        *)
(***************************************************************************)
C10_PropertyNameNonEmpty ==
    \A node \in ProducedNodes : node.k = "PropertyRef" => node.property.s # <<>>

(***************************************************************************)
(* C11.  Array predicates use the canonical JSON shape in both directions: *)
(* in the encoding of every AST, the args of an a_* node is a JSON array   *)
(* of two values, as it is in the JSON the decoder takes.                  *)
(***************************************************************************)
C11_ArrayCanonicalShape ==
    phase \in {"encoded", "encoded_built"} =>
        \A j \in OperandsOf(encoded) : HasOp(j, ArrayOperator) => IsSeqOfLen(j.f.args, {2})

(***************************************************************************)
(* utils.py: the character-literal helpers that escape an apostrophe with  *)
(* a backslash.                                                            *)
(***************************************************************************)
QUOTE_QUOTE == <<QUOTE, QUOTE>>
BACKSLASH_QUOTE == <<"\\", QUOTE>>

\* str.replace(old, new) for a two-character old: the occurrences are taken
\* from the left and do not overlap.
RECURSIVE Replace2(_, _, _)
Replace2(str, old, new) ==
    IF Len(str) < 2 THEN str
    ELSE IF SubSeq(str, 1, 2) = old
         THEN new \o Replace2(SubSeq(str, 3, Len(str)), old, new)
    ELSE <<Head(str)>> \o Replace2(Tail(str), old, new)

\* characters[1:-1]
Slice1(characters) == SubSeq(characters, 2, Len(characters) - 1)

_make_char_literal(characters) ==
    <<QUOTE>> \o Replace1(characters, QUOTE, BACKSLASH_QUOTE) \o <<QUOTE>>

\* A cleaner that removes the outer quotes and decodes no escape.
_clean_char_literal_SliceOnly(characters) == Slice1(characters)

_clean_char_literal(characters) ==
    Replace2(Replace2(Slice1(characters), QUOTE_QUOTE, <<QUOTE>>), BACKSLASH_QUOTE, <<QUOTE>>)

(***************************************************************************)
(* SpecUtils: a string is written as a character literal, in the           *)
(* backslash form by _make_char_literal or in the doubled form by          *)
(* make_char_literal, and the literal is cleaned by _clean_char_literal.   *)
(***************************************************************************)
InitUtils ==
    /\ phase = "string"
    /\ chars \in Strings
    /\ lit = <<>>
    /\ back = <<>>
    /\ input = None /\ ast = None /\ text = <<>>
    /\ built = None /\ encoded = None /\ redecoded = None
    /\ rootKeyword = "root"

MakeBackslashLiteral ==
    /\ phase = "string"
    /\ lit' = _make_char_literal(chars)
    /\ phase' = "backslash"
    /\ UNCHANGED <<chars, back, input, ast, text, built, encoded, redecoded, rootKeyword>>

MakeDoubledLiteral ==
    /\ phase = "string"
    /\ lit' = make_char_literal(chars)
    /\ phase' = "doubled"
    /\ UNCHANGED <<chars, back, input, ast, text, built, encoded, redecoded, rootKeyword>>

CleanLiteral ==
    /\ phase \in {"backslash", "doubled"}
    /\ back' = _clean_char_literal(lit)
    /\ phase' = IF phase = "backslash" THEN "cleaned_backslash" ELSE "cleaned_doubled"
    /\ UNCHANGED <<chars, lit, input, ast, text, built, encoded, redecoded, rootKeyword>>

NextUtils == MakeBackslashLiteral \/ MakeDoubledLiteral \/ CleanLiteral

SpecUtils == InitUtils /\ [][NextUtils]_vars

\* The number of apostrophes of a string.
RECURSIVE CountQuotes(_)
CountQuotes(str) ==
    IF str = <<>> THEN 0 ELSE (IF Head(str) = QUOTE THEN 1 ELSE 0) + CountQuotes(Tail(str))

(***************************************************************************)
(* C12.  The backslash helpers are inverse: the literal _make_char_literal *)
(* writes for a string is the string between two apostrophes with one      *)
(* backslash put before each of its apostrophes, and _clean_char_literal   *)
(* gives the string back from it, whatever apostrophes and backslashes the *)
(* string holds.                                                           *)
(***************************************************************************)
C12_BackslashHelpersInverse ==
    /\ phase \in {"backslash", "cleaned_backslash"} =>
          /\ Len(lit) = Len(chars) + CountQuotes(chars) + 2
          /\ lit[1] = QUOTE /\ lit[Len(lit)] = QUOTE
          /\ \A i \in 2..(Len(lit) - 1) : lit[i] = QUOTE => lit[i - 1] = "\\"
          /\ Replace2(Slice1(lit), BACKSLASH_QUOTE, <<QUOTE>>) = chars
    /\ phase = "cleaned_backslash" => back = chars

\* A string with a backslash before repeated apostrophes has been written
\* and cleaned.
C12_Witness == phase = "cleaned_backslash" /\ chars = <<"\\", QUOTE, QUOTE>>

(***************************************************************************)
(* C14.  Literal cleaning accepts both escape forms: _clean_char_literal   *)
(* gives the string back from its doubled-apostrophe literal and from its  *)
(* backslash literal, also when the string holds a backslash immediately   *)
(* before an apostrophe.                                                   *)
(***************************************************************************)
C14_CleanAcceptsBothForms ==
    phase \in {"cleaned_backslash", "cleaned_doubled"} => back = chars

(***************************************************************************)
(* C13.  Fixed arity is enforced on JSON decode: a JSON value holding, at  *)
(* the root or in operand position, an op node whose number of arguments   *)
(* is not the one its operator takes (1 for not; 2 for the comparisons,    *)
(* like, s_*, t_* and the arithmetic operators; 3 for between), or whose   *)
(* op names no operator, is never decoded.                                 *)
(***************************************************************************)
FixedArityOps ==
    {"not", "like", "between"} \cup BinaryComparisonOps \cup SpatialOperator
        \cup TemporalOperator \cup ArithmeticOps

KnownOps == FixedArityOps \cup ArrayOperator \cup {"and", "or", "in", "isNull"}

ArityOf(op) == IF op = "not" THEN 1 ELSE IF op = "between" THEN 3 ELSE 2

\* An op node is an object of the keys op and args and no other.
IsOpShaped(j) == j.k = "dict" /\ DOMAIN j.f = {"op", "args"}

HasWrongArity(j) ==
    IsOpShaped(j) /\ HasOp(j, FixedArityOps) /\ ~IsSeqOfLen(j.f.args, {ArityOf(j.f.op.s[1])})

HasUnknownOp(j) == IsOpShaped(j) /\ ~IsLiteral(j.f.op, KnownOps)

C13_FixedArity ==
    phase = "decoded" => \A j \in OperandsOf(input) : ~HasWrongArity(j) /\ ~HasUnknownOp(j)

\* A comparison whose operand is an addition of three numbers has been
\* rejected.
C13_Witness ==
    phase = "rejected" /\ input = JOp("=", <<JOp("+", <<N(1), N(2), N(3)>>), N(1)>>)

(***************************************************************************)
(* C15.  NOT-sugar is desugared at build time: a text that is one          *)
(* predicate in a negated form (NOT LIKE, NOT BETWEEN, NOT IN, IS NOT      *)
(* NULL) builds to a NotExpression whose single argument is the            *)
(* BooleanExpression that the text without its NOT builds, the operands    *)
(* in the same order and the list of IN whole; and the predicate nodes     *)
(* have the fields op and args and no other.                               *)
(***************************************************************************)
IsSugarAt(txt, i) ==
    /\ txt[i] = "NOT"
    /\ \/ i < Len(txt) /\ txt[i + 1] \in {"LIKE", "BETWEEN", "IN"}
       \/ 1 < i /\ i < Len(txt) /\ txt[i - 1] = "IS" /\ txt[i + 1] = "NULL"

WithoutAt(txt, i) == SubSeq(txt, 1, i - 1) \o SubSeq(txt, i + 1, Len(txt))

\* The text is in the grammar and is one predicate of one of the rules.
IsPredicateOf(txt, rules) ==
    LET tree == Parse(txt)
    IN  tree # ParseError /\ tree.children[1].k = "tree" /\ tree.children[1].rule \in rules

SugarPredicates ==
    {"IsLikePredicate", "IsBetweenPredicate", "IsInListPredicate", "IsNullPredicate"}

C15_NotSugarDesugared ==
    /\ phase \in {"built", "unbuilt"} =>
          \A i \in 1..Len(text) :
              (/\ IsSugarAt(text, i)
               /\ IsPredicateOf(text, {"not_like", "is_not_between", "not_in_list", "is_not_null"})
               /\ IsPredicateOf(WithoutAt(text, i), {"like", "is_between", "in_list", "is_null"}))
                  => built = [k |-> "BooleanExpression",
                              root |-> [k |-> "NotExpression", op |-> "not",
                                        args |-> L(<<ParseText(WithoutAt(text, i))>>)]]
    /\ \A node \in ProducedNodes :
          node.k \in SugarPredicates => DOMAIN node = {"k", "op", "args"}

(***************************************************************************)
(* C16.  Flattening of logical runs: a text of the grammar builds to a     *)
(* BooleanExpression.  When the text is a run of n >= 2 operands joined by *)
(* OR (by AND), its root is one AndOrExpression of op or (and) whose       *)
(* arguments are the n operands in the order of the text, each a           *)
(* BooleanExpression; when it is not a run, its root is no                 *)
(* AndOrExpression.                                                        *)
(***************************************************************************)
IsRun(tree) == tree.k = "tree" /\ tree.rule \in {"boolean_expression", "boolean_term"}

RunOp(tree) == IF tree.rule = "boolean_expression" THEN "or" ELSE "and"

C16_LogicalRunsFlattened ==
    (phase \in {"built", "unbuilt"} /\ Parse(text) # ParseError) =>
        LET top == Parse(text).children[1]
        IN  /\ built.k = "BooleanExpression"
            /\ IsRun(top) =>
                  /\ Len(top.children) >= 2
                  /\ built.root.k = "AndOrExpression"
                  /\ built.root.op = RunOp(top)
                  /\ Len(built.root.args.items) = Len(top.children)
                  /\ \A i \in 1..Len(top.children) :
                        /\ built.root.args.items[i].k = "BooleanExpression"
                        /\ built.root.args.items[i]
                              = _make_boolean_expression(Transform(top.children[i]))
            /\ ~IsRun(top) => built.root.k # "AndOrExpression"

\* The nodes of a parse tree: the tree, its subtrees and its tokens.
RECURSIVE SubTrees(_)
SubTrees(tree) ==
    {tree} \cup
    (IF tree.k = "tree"
     THEN UNION {SubTrees(tree.children[i]) : i \in 1..Len(tree.children)}
     ELSE {})

\* The nodes of the parse tree of the text under way.
ParsedNodes == IF Parse(text) = ParseError THEN {} ELSE SubTrees(Parse(text))

ArithmeticRules ==
    {"plus", "minus", "multiply", "divide", "power", "modulus", "int_divide"}

LowerCaseLetters ==
    <<"a", "b", "c", "d", "e", "f", "g", "h", "i", "j", "k", "l", "m", "n",
      "o", "p", "q", "r", "s", "t", "u", "v", "w", "x", "y", "z">>
UpperCaseLetters ==
    <<"A", "B", "C", "D", "E", "F", "G", "H", "I", "J", "K", "L", "M", "N",
      "O", "P", "Q", "R", "S", "T", "U", "V", "W", "X", "Y", "Z">>

\* The characters str.lower() and str.upper() give for one character.
LowerChar(c) ==
    IF \E i \in 1..26 : UpperCaseLetters[i] = c
    THEN LowerCaseLetters[CHOOSE i \in 1..26 : UpperCaseLetters[i] = c]
    ELSE c
UpperChar(c) ==
    IF \E i \in 1..26 : LowerCaseLetters[i] = c
    THEN UpperCaseLetters[CHOOSE i \in 1..26 : LowerCaseLetters[i] = c]
    ELSE c
SwapChar(c) == IF LowerChar(c) = c THEN UpperChar(c) ELSE LowerChar(c)

str_lower(str) == [i \in 1..Len(str) |-> LowerChar(str[i])]
str_upper(str) == [i \in 1..Len(str) |-> UpperChar(str[i])]

\* The value of an enum member, character by character.
Spelling(op) ==
    CASE op = "s_contains" -> <<"s", "_", "c", "o", "n", "t", "a", "i", "n", "s">>
      [] op = "s_crosses" -> <<"s", "_", "c", "r", "o", "s", "s", "e", "s">>
      [] op = "s_disjoint" -> <<"s", "_", "d", "i", "s", "j", "o", "i", "n", "t">>
      [] op = "s_equals" -> <<"s", "_", "e", "q", "u", "a", "l", "s">>
      [] op = "s_intersects" -> <<"s", "_", "i", "n", "t", "e", "r", "s", "e", "c", "t", "s">>
      [] op = "s_overlaps" -> <<"s", "_", "o", "v", "e", "r", "l", "a", "p", "s">>
      [] op = "s_touches" -> <<"s", "_", "t", "o", "u", "c", "h", "e", "s">>
      [] op = "s_within" -> <<"s", "_", "w", "i", "t", "h", "i", "n">>
      [] op = "t_after" -> <<"t", "_", "a", "f", "t", "e", "r">>
      [] op = "t_before" -> <<"t", "_", "b", "e", "f", "o", "r", "e">>
      [] op = "t_contains" -> <<"t", "_", "c", "o", "n", "t", "a", "i", "n", "s">>
      [] op = "t_disjoint" -> <<"t", "_", "d", "i", "s", "j", "o", "i", "n", "t">>
      [] op = "t_during" -> <<"t", "_", "d", "u", "r", "i", "n", "g">>
      [] op = "t_equals" -> <<"t", "_", "e", "q", "u", "a", "l", "s">>
      [] op = "t_finishedBy" -> <<"t", "_", "f", "i", "n", "i", "s", "h", "e", "d", "B", "y">>
      [] op = "t_finishes" -> <<"t", "_", "f", "i", "n", "i", "s", "h", "e", "s">>
      [] op = "t_intersects" -> <<"t", "_", "i", "n", "t", "e", "r", "s", "e", "c", "t", "s">>
      [] op = "t_meets" -> <<"t", "_", "m", "e", "e", "t", "s">>
      [] op = "t_metBy" -> <<"t", "_", "m", "e", "t", "B", "y">>
      [] op = "t_overlappedBy" -> <<"t", "_", "o", "v", "e", "r", "l", "a", "p", "p", "e", "d", "B", "y">>
      [] op = "t_overlaps" -> <<"t", "_", "o", "v", "e", "r", "l", "a", "p", "s">>
      [] op = "t_startedBy" -> <<"t", "_", "s", "t", "a", "r", "t", "e", "d", "B", "y">>
      [] op = "t_starts" -> <<"t", "_", "s", "t", "a", "r", "t", "s">>
      [] op = "a_containedBy" -> <<"a", "_", "c", "o", "n", "t", "a", "i", "n", "e", "d", "B", "y">>
      [] op = "a_contains" -> <<"a", "_", "c", "o", "n", "t", "a", "i", "n", "s">>
      [] op = "a_equals" -> <<"a", "_", "e", "q", "u", "a", "l", "s">>
      [] op = "a_overlaps" -> <<"a", "_", "o", "v", "e", "r", "l", "a", "p", "s">>

SpellingsOf(enum) == {Spelling(op) : op \in enum}

EnumOf(name) ==
    CASE name = "SpatialOperator" -> SpatialOperator
      [] name = "TemporalOperator" -> TemporalOperator
      [] name = "ArrayOperator" -> ArrayOperator

\* Enum(value): the member of that value, or ValueError.
ValueError == [k |-> "ValueError"]
EnumMember(enum, value) == IF value \in SpellingsOf(enum) THEN S(value) ELSE ValueError

\* op.endswith("by") and op[:-2] + "By"
str_endswith_by(op) == Len(op) >= 2 /\ SubSeq(op, Len(op) - 1, Len(op)) = <<"b", "y">>

\* A builder that leaves the closing "by" as str.lower() gives it.
SpecialCaseBy_LowerOnly(op) == op

SpecialCaseBy(op) ==
    IF str_endswith_by(op) THEN SubSeq(op, 1, Len(op) - 2) \o <<"B", "y">> ELSE op

\* The operator the callback of the enum's predicate makes from the lexeme.
OperatorOf(name, lexeme) ==
    IF name = "SpatialOperator"
    THEN EnumMember(SpatialOperator, str_lower(lexeme))
    ELSE EnumMember(EnumOf(name), SpecialCaseBy(str_lower(lexeme)))

\* The greatest number of characters of a name whose case a variant changes.
MaxFlips == 2

FlipSets(n) == {flips \in SUBSET (1..n) : Cardinality(flips) \in 1..MaxFlips}

(***************************************************************************)
(* The operator state machine: a member of one of the three enums is       *)
(* written as the emitter writes it (op.upper()) or in another case        *)
(* variant, and the builder makes the operator back from what was written. *)
(* input is the enum's name, chars the member's value, lit the lexeme and  *)
(* back the operator built or the error raised.                            *)
(***************************************************************************)
InitOperators ==
    /\ phase = "operator"
    /\ input \in {"SpatialOperator", "TemporalOperator", "ArrayOperator"}
    /\ chars \in SpellingsOf(EnumOf(input))
    /\ lit = <<>>
    /\ back = <<>>
    /\ ast = None /\ text = <<>>
    /\ built = None /\ encoded = None /\ redecoded = None
    /\ rootKeyword = "root"

\* SpatialPredicate.__str__ and its like: self.op.upper()
EmitOperator ==
    /\ phase = "operator"
    /\ lit' = str_upper(chars)
    /\ phase' = "lexeme"
    /\ UNCHANGED <<chars, back, input, ast, text, built, encoded, redecoded, rootKeyword>>

\* A text that writes the operator, or the emitter's lexeme, with the case of
\* some characters changed.
VaryOperator ==
    /\ phase \in {"operator", "lexeme"}
    /\ \E flips \in FlipSets(Len(chars)) :
          LET from == IF phase = "operator" THEN chars ELSE lit
          IN  lit' = [i \in 1..Len(from) |-> IF i \in flips THEN SwapChar(from[i]) ELSE from[i]]
    /\ phase' = "variant"
    /\ UNCHANGED <<chars, back, input, ast, text, built, encoded, redecoded, rootKeyword>>

BuildOperator ==
    /\ phase \in {"lexeme", "variant"}
    /\ back' = OperatorOf(input, lit)
    /\ phase' = IF phase = "lexeme" THEN "built_lexeme" ELSE "built_variant"
    /\ UNCHANGED <<chars, lit, input, ast, text, built, encoded, redecoded, rootKeyword>>

NextOperators == EmitOperator \/ VaryOperator \/ BuildOperator

SpecOperators == InitOperators /\ [][NextOperators]_vars

(***************************************************************************)
(* C17.  The builder's operator is the enum member written: the lexeme the *)
(* emitter writes for a spatial, temporal or array operator is the         *)
(* member's value in capitals, and from that lexeme, and from every other  *)
(* case variant of the value, the builder makes the value itself, never    *)
(* ValueError and never another string; for the members that end in "By"   *)
(* the lower-cased lexeme ends in "by" and the operator built ends in "By".*)
(***************************************************************************)
C17_OperatorCanonicalization ==
    /\ phase \in {"lexeme", "built_lexeme"} =>
          /\ Len(lit) = Len(chars)
          /\ \A i \in 1..Len(lit) : lit[i] = UpperChar(chars[i]) /\ LowerChar(lit[i]) = LowerChar(chars[i])
    /\ phase \in {"built_lexeme", "built_variant"} =>
          /\ str_lower(lit) = str_lower(chars)
          /\ back # ValueError
          /\ back = S(chars)
          /\ back.s \in SpellingsOf(EnumOf(input))
          /\ str_endswith_by(str_lower(lit)) =>
                SubSeq(back.s, Len(back.s) - 1, Len(back.s)) = <<"B", "y">>

\* T_OVERLAPPEDBY, as the emitter writes t_overlappedBy, has been built.
C17_Witness ==
    /\ phase = "built_lexeme"
    /\ input = "TemporalOperator"
    /\ chars = Spelling("t_overlappedBy")
    /\ lit = <<"T", "_", "O", "V", "E", "R", "L", "A", "P", "P", "E", "D", "B", "Y">>

(***************************************************************************)
(* C19.  A function is written as its name, an opening parenthesis, its    *)
(* arguments as they are written, with commas between them, and a closing  *)
(* parenthesis, with nothing between the parentheses when it has no        *)
(* arguments; and the text written for an AST holds, for every FunctionRef *)
(* of the AST, one with an empty list of arguments included, a function    *)
(* that the builder builds to that FunctionRef.                            *)
(***************************************************************************)
C19_FunctionRoundTrip ==
    (ast.k = "BooleanExpression" /\ text # <<>>) =>
        \A f \in Nodes(ast) :
            f.k = "FunctionRef" =>
                /\ Str(f) = f.function.name.s \o <<"(">>
                               \o (IF f.function.args = None \/ f.function.args = L(<<>>)
                                   THEN <<>>
                                   ELSE join_list(f.function.args.items, <<",">>))
                               \o <<")">>
                /\ \E t \in ParsedNodes :
                      t.k = "tree" /\ t.rule = "function" /\ Transform(t) = f

\* The kind an interval endpoint is written in, in JSON.
JsonEndpointKind(j) ==
    IF j.k = "str" /\ j.s = <<"..">> THEN "str"
    ELSE IF j.k = "str" /\ Len(j.s) = 1 THEN "date"
    ELSE IF j.k = "str" THEN "datetime"
    ELSE IF j.k = "dict" /\ "property" \in DOMAIN j.f THEN "PropertyRef"
    ELSE "FunctionRef"

\* The kind an interval endpoint is written in, in the text.
TextEndpointKind(t) ==
    IF t.k = "token"
    THEN CASE t.t = "DATE" -> "date" [] t.t = "DATE_TIME" -> "datetime" [] t.t = "DOTDOT" -> "str"
    ELSE IF t.rule = "property_name" THEN "PropertyRef" ELSE "FunctionRef"

\* The text an endpoint of each kind is to be written as.
EndpointText(e) ==
    CASE e.root.k = "date" -> <<QUOTE, e.root.day, QUOTE>>
      [] e.root.k = "datetime" ->
            <<QUOTE, e.root.day, TimeSym(e.root.hour), ".000000", "Z", QUOTE>>
      [] e.root.k = "str" -> <<QUOTE, "..", QUOTE>>
      [] e.root.k = "PropertyRef" -> <<"\"">> \o e.root.property.s \o <<"\"">>
      [] e.root.k = "FunctionRef" -> Str(e.root.function)

IsUtc(e) == e.root.k = "datetime" => (e.root.aware /\ e.root.off = 0)

C21_PropertyNameRoundTrip ==
    ast.k = "BooleanExpression" =>
        \A v \in Nodes(ast) :
            v.k = "PropertyRef" =>
                /\ Str(v) = <<"\"">> \o v.property.s \o <<"\"">>
                /\ property_name(Str(v)) = v

=============================================================================
